---------------------------- MODULE Spec2Model ----------------------------
(***************************************************************************)
(* Model of the repository's tool layer (src/mastra/tools): the credential  *)
(* cache (getAccessToken), the repository tools against a source-control   *)
(* host, the board tools against a board host, the error boundary of every *)
(* tool of the agent's registry, and the scheduled workflow                *)
(* (src/mastra/workflows/ctoAutomationWorkflow.ts).                        *)
(*                                                                         *)
(* The subsystems share no state, so each has its own specification        *)
(* (SpecCommit, SpecToken, ...) in which the other subsystems are at rest. *)
(*                                                                         *)
(* Every `await` on an external call is a suspension point, so each tool   *)
(* is a small process: one action per response that resumes it, running    *)
(* the handler's code up to the next await (JavaScript run-to-completion). *)
(***************************************************************************)
EXTENDS Integers, Sequences, FiniteSets, TLC

(***************************************************************************)
(* Bounds of the model.                                                    *)
(***************************************************************************)
MaxFiles == 2        \* files per commitCode call: 0..MaxFiles
MaxTime == 2         \* the clock runs over 0..MaxTime
MaxTokenCalls == 3   \* getAccessToken calls started, over both callers
MaxPrCalls == 2      \* createPullRequest calls started, over both callers
MaxItems == 2        \* entries of a directory listing: 0..MaxItems
MaxCount == 2        \* a run counts the calls of a tool up to MaxCount
MaxSha == 2          \* other clients push up to the commit MaxSha
MaxComments == 1     \* comments are added while the board has fewer

\* Two commitCode calls on the same branch, one per caller; they overlap or
\* follow one another.
Callers == {1, 2}

VARIABLES
    head,        \* host: sha the branch ref points at
    commitObjs,  \* host: commit objects, commitObjs[sha] = [parents, tree]
    refUpdates,  \* host: accepted ref updates, in order: [by, from, to]
    reported,    \* commit shas returned to a caller with success:true
    cc           \* cc[p]: the locals of caller p's commitCode execution

commitVars == <<head, commitObjs, refUpdates, reported, cc>>

VARIABLES
    now,                 \* Date.now()
    connectionSettings,  \* the module-level cache of that copy
    tokenCalls,          \* getAccessToken calls started so far
    tk                   \* tk[p]: caller p's getAccessToken execution

tokenVars == <<now, connectionSettings, tokenCalls, tk>>

VARIABLES
    pulls,     \* host: the pull requests, pulls[number] = [by, seq, body, ...]
    prCalls,   \* createPullRequest calls started so far
    pr         \* pr[p]: the locals of caller p's createPullRequest execution

prVars == <<pulls, prCalls, pr>>

VARIABLES
    rc         \* the locals of a getRepositoryContent execution

contentVars == <<rc>>

VARIABLES
    tl         \* the execution of one tool call of the agent's registry

toolVars == <<tl>>

VARIABLES
    wf         \* the scheduled workflow run and its two steps

workflowVars == <<wf>>

VARIABLES
    pages,     \* board host: the pages of the workspace, pages[id]
    kb         \* the locals of a readKanbanBoard / queryTaskDetails execution

boardVars == <<pages, kb>>

VARIABLES
    refs,      \* host: refs[name] = <<sha>> of the branch, <<>> when none
    cb         \* cb[p]: the locals of caller p's createBranch execution

branchVars == <<refs, cb>>

vars == <<commitVars, tokenVars, prVars, contentVars,
          toolVars, workflowVars, boardVars, branchVars>>

\* What a subsystem's actions leave alone: the other subsystems.
notCommit == <<tokenVars, prVars, contentVars,
               toolVars, workflowVars, boardVars, branchVars>>
notToken == <<commitVars, prVars, contentVars,
              toolVars, workflowVars, boardVars, branchVars>>
notPr == <<commitVars, tokenVars, contentVars,
           toolVars, workflowVars, boardVars, branchVars>>
notContent == <<commitVars, tokenVars, prVars,
                toolVars, workflowVars, boardVars, branchVars>>
notTool == <<commitVars, tokenVars, prVars, contentVars,
             workflowVars, boardVars, branchVars>>
notWorkflow == <<commitVars, tokenVars, prVars, contentVars,
                 toolVars, boardVars, branchVars>>
notBoard == <<commitVars, tokenVars, prVars, contentVars,
              toolVars, workflowVars, branchVars>>
notBranch == <<commitVars, tokenVars, prVars, contentVars,
               toolVars, workflowVars, boardVars>>

(***************************************************************************)
(* commitCode (githubTools.ts:111-224)                                     *)
(***************************************************************************)

\* The optional commitSha of the tool's output: <<>> when absent.
SuccessResult(sha) == [success |-> TRUE, commitSha |-> <<sha>>]

FailureResult(c) == [success |-> FALSE, commitSha |-> <<>>]

\* parents: [ref.data.object.sha]
CommitParents(c) == <<c.ref>>

\* Mutant: the ref update is forced.
UpdateRefForced == TRUE

\* updateRef is called without `force`, so the host applies its default.
UpdateRefForce == FALSE

\* Mutant: the fan-out is awaited with Promise.any instead of Promise.all.
BlobsResolvedAny(b) == \E i \in DOMAIN b : b[i] # 0

\* Promise.all over the blob promises resolves when every one has resolved.
\* b[i] = 0 while createBlob for file i is in flight, its blob sha afterwards.
BlobsResolved(b) == \A i \in DOMAIN b : b[i] # 0

\* The host's blob sha of file i (content-addressed; file i has content i).
BlobSha(i) == i

\* The host's tree: the base tree with the new entries layered over it.
TreeSha(baseTree, blobs) == Append(baseTree, blobs)

RECURSIVE Ancestors(_)
\* The commits reachable from sha through parents, sha included.
Ancestors(sha) ==
    {sha} \cup UNION {Ancestors(commitObjs[sha].parents[k]) :
                        k \in 1..Len(commitObjs[sha].parents)}

\* The host's rule for a ref update without force.
IsFastForward(old, new) == old \in Ancestors(new)

Call(op, arg) == <<"call", op, arg>>
Ret(op, arg)  == <<"ret", op, arg>>
Fail(op, arg) == <<"fail", op, arg>>

\* Mutant: the error is caught per call and logged, and execution goes on
\* (the per-file try/catch of getRepositoryContent, applied here).
Swallowed(c, op, why) == [c EXCEPT !.log = Append(c.log, Fail(op, why))]

\* The catch block: the error is logged and a failure object returned.
Caught(c, op, why) ==
    [c EXCEPT !.pc = "done",
              !.result = FailureResult(c),
              !.log = Append(c.log, Fail(op, why))]

IdleCall ==
    [pc |-> "idle", n |-> 0, ref |-> 0, commit |-> <<>>,
     blobs |-> <<>>, tree |-> <<>>, newCommit |-> 0,
     result |-> [success |-> FALSE, commitSha |-> <<>>], log |-> <<>>]

CommitInit ==
    /\ head = 1
    /\ commitObjs = << [parents |-> <<>>, tree |-> <<>>] >>
    /\ refUpdates = <<>>
    /\ reported = {}
    /\ cc = [p \in Callers |-> IdleCall]

\* execute is entered with `files` of length n; it awaits the client.
StartCommitCode(p, n) ==
    /\ cc[p].pc = "idle"
    /\ cc' = [cc EXCEPT ![p] = [IdleCall EXCEPT !.pc = "client", !.n = n]]
    /\ UNCHANGED <<head, commitObjs, refUpdates, reported, notCommit>>

\* getUncachableGitHubClient returns or throws; on return getRef is issued.
ClientReturn(p, ok) ==
    /\ cc[p].pc = "client"
    /\ cc' = [cc EXCEPT ![p] =
                IF ok
                THEN [@ EXCEPT !.pc = "getRef",
                               !.log = Append(@, Call("getRef", 0))]
                ELSE Caught(@, "client", 0)]
    /\ UNCHANGED <<head, commitObjs, refUpdates, reported, notCommit>>

\* git.getRef returns the branch head; getCommit is issued for it.
GetRefReturn(p, ok) ==
    /\ cc[p].pc = "getRef"
    /\ cc' = [cc EXCEPT ![p] =
                IF ok
                THEN [@ EXCEPT !.pc = "getCommit",
                               !.ref = head,
                               !.log = @ \o <<Ret("getRef", head),
                                              Call("getCommit", head)>>]
                ELSE Caught(@, "getRef", 0)]
    /\ UNCHANGED <<head, commitObjs, refUpdates, reported, notCommit>>

\* The calls files.map issues before Promise.all suspends: one createBlob per
\* file, in file order.
BlobCalls(n) == [i \in 1..n |-> Call("createBlob", i)]

\* Code that runs once Promise.all has resolved: createTree is issued.
AfterBlobs(c) ==
    IF BlobsResolved(c.blobs)
    THEN [c EXCEPT !.pc = "createTree",
                   !.log = Append(c.log, Call("createTree", 0))]
    ELSE c

\* git.getCommit returns the head commit; every createBlob is issued.
GetCommitReturn(p, ok) ==
    /\ cc[p].pc = "getCommit"
    /\ cc' = [cc EXCEPT ![p] =
                IF ok
                THEN AfterBlobs([@ EXCEPT
                        !.pc = "createBlob",
                        !.commit = commitObjs[cc[p].ref].tree,
                        !.blobs = [i \in 1..cc[p].n |-> 0],
                        !.log = (@ \o <<Ret("getCommit", 0)>>)
                                   \o BlobCalls(cc[p].n)])
                ELSE Caught(@, "getCommit", 0)]
    /\ UNCHANGED <<head, commitObjs, refUpdates, reported, notCommit>>

\* One createBlob settles. A rejection rejects Promise.all at once.
CreateBlobReturn(p, i, ok) ==
    /\ cc[p].pc = "createBlob"
    /\ i \in DOMAIN cc[p].blobs
    /\ cc[p].blobs[i] = 0
    /\ cc' = [cc EXCEPT ![p] =
                IF ok
                THEN AfterBlobs([@ EXCEPT
                        !.blobs[i] = BlobSha(i),
                        !.log = Append(@, Ret("createBlob", i))])
                ELSE Caught(@, "createBlob", i)]
    /\ UNCHANGED <<head, commitObjs, refUpdates, reported, notCommit>>

\* git.createTree returns; createCommit is issued.
CreateTreeReturn(p, ok) ==
    /\ cc[p].pc = "createTree"
    /\ cc' = [cc EXCEPT ![p] =
                IF ok
                THEN [@ EXCEPT !.pc = "createCommit",
                               !.tree = TreeSha(cc[p].commit, cc[p].blobs),
                               !.log = @ \o <<Ret("createTree", 0),
                                              Call("createCommit", 0)>>]
                ELSE Caught(@, "createTree", 0)]
    /\ UNCHANGED <<head, commitObjs, refUpdates, reported, notCommit>>

\* git.createCommit stores the commit and returns its sha; updateRef is
\* issued with that sha.
CreateCommitReturn(p, ok) ==
    /\ cc[p].pc = "createCommit"
    /\ LET sha == Len(commitObjs) + 1 IN
       IF ok
       THEN /\ commitObjs' = Append(commitObjs,
                                [parents |-> CommitParents(cc[p]),
                                 tree |-> cc[p].tree])
            /\ cc' = [cc EXCEPT ![p] =
                        [@ EXCEPT !.pc = "updateRef",
                                  !.newCommit = sha,
                                  !.log = @ \o <<Ret("createCommit", sha),
                                                 Call("updateRef", sha)>>]]
       ELSE /\ commitObjs' = commitObjs
            /\ cc' = [cc EXCEPT ![p] = Caught(@, "createCommit", 0)]
    /\ UNCHANGED <<head, refUpdates, reported, notCommit>>

\* git.updateRef: the host moves the ref when it accepts the update, and
\* rejects an update that is not a fast-forward unless it is forced.
UpdateRefReturn(p, ok) ==
    /\ cc[p].pc = "updateRef"
    /\ LET sha == cc[p].newCommit
           ff  == UpdateRefForce \/ IsFastForward(head, sha)
       IN
       IF ok /\ ff
       THEN /\ head' = sha
            /\ refUpdates' = Append(refUpdates,
                                [by |-> p, from |-> head, to |-> sha])
            /\ reported' = reported \cup {sha}
            /\ cc' = [cc EXCEPT ![p] =
                        [@ EXCEPT !.pc = "done",
                                  !.result = SuccessResult(sha),
                                  !.log = Append(@, Ret("updateRef", sha))]]
       ELSE /\ UNCHANGED <<head, refUpdates, reported>>
            /\ cc' = [cc EXCEPT ![p] =
                        Caught(@, "updateRef", IF ok THEN 1 ELSE 0)]
    /\ UNCHANGED <<commitObjs, notCommit>>

CommitNext ==
    \/ \E p \in Callers, n \in 0..MaxFiles : StartCommitCode(p, n)
    \/ \E p \in Callers, ok \in BOOLEAN : ClientReturn(p, ok)
    \/ \E p \in Callers, ok \in BOOLEAN : GetRefReturn(p, ok)
    \/ \E p \in Callers, ok \in BOOLEAN : GetCommitReturn(p, ok)
    \/ \E p \in Callers, i \in 1..MaxFiles, ok \in BOOLEAN :
            CreateBlobReturn(p, i, ok)
    \/ \E p \in Callers, ok \in BOOLEAN : CreateTreeReturn(p, ok)
    \/ \E p \in Callers, ok \in BOOLEAN : CreateCommitReturn(p, ok)
    \/ \E p \in Callers, ok \in BOOLEAN : UpdateRefReturn(p, ok)


(***************************************************************************)
(* Properties of commitCode                                                *)
(***************************************************************************)

CallsOf(log) == SelectSeq(log, LAMBDA e : e[1] = "call")
OpsOf(log) == [k \in 1..Len(CallsOf(log)) |-> CallsOf(log)[k][2]]
HasFailure(log) == \E k \in 1..Len(log) : log[k][1] = "fail"
IsPrefix(s, t) == Len(s) <= Len(t) /\ SubSeq(t, 1, Len(s)) = s
Before(log, a, b) ==
    \E j, k \in 1..Len(log) : j < k /\ log[j] = a /\ log[k] = b

\* The host calls of a commitCode call with n files, when none fails.
ExpectedOps(n) ==
    (<<"getRef", "getCommit">> \o [i \in 1..n |-> "createBlob"])
        \o <<"createTree", "createCommit", "updateRef">>

Succeeded(c) == c.pc = "done" /\ c.result.success

\* C1: a commitCode call with N files in which nothing fails issues getRef,
\* getCommit, exactly N createBlob calls (one per file), one createTree only
\* after every createBlob has returned, one createCommit and last one
\* updateRef; updateRef carries the sha createCommit returned, and the tool
\* returns that sha as commitSha. While a call runs, the calls issued so far
\* are a prefix of that sequence.
C1_CommitCallOrder ==
    \A p \in Callers :
        LET c == cc[p]
            calls == CallsOf(c.log)
        IN
        /\ IsPrefix(OpsOf(c.log), ExpectedOps(c.n))
        /\ \A i \in 1..c.n :
              Call("createTree", 0) \in {c.log[k] : k \in 1..Len(c.log)}
                => Before(c.log, Ret("createBlob", i), Call("createTree", 0))
        /\ Succeeded(c) =>
              /\ ~HasFailure(c.log)
              /\ OpsOf(c.log) = ExpectedOps(c.n)
              /\ {calls[k][3] : k \in 3..(2 + c.n)} = 1..c.n
              /\ Before(c.log, Ret("createTree", 0), Call("createCommit", 0))
              /\ \E sha \in 1..Len(commitObjs) :
                    /\ Before(c.log, Ret("createCommit", sha),
                                     Call("updateRef", sha))
                    /\ calls[Len(calls)] = Call("updateRef", sha)
                    /\ c.log[Len(c.log)] = Ret("updateRef", sha)
                    /\ c.result.commitSha = <<sha>>

\* Witness of C1: a successful call with at least two files whose blobs were
\* created out of file order.
C1_Witness ==
    \E p \in Callers :
        /\ Succeeded(cc[p])
        /\ cc[p].n >= 2
        /\ Before(cc[p].log, Ret("createBlob", 2), Ret("createBlob", 1))

\* C2: when a step of commitCode fails, the call ends there: the failure is
\* the last entry of its log (no later step is issued), the tool returns
\* success:false without a commitSha, and the call has not moved the branch
\* ref (no accepted ref update is its own, the ref does not point at a commit
\* it created).
C2_AllOrNothing ==
    \A p \in Callers :
        LET c == cc[p] IN
        HasFailure(c.log) =>
            /\ c.pc = "done"
            /\ c.log[Len(c.log)][1] = "fail"
            /\ \A k \in 1..(Len(c.log) - 1) : c.log[k][1] # "fail"
            /\ c.result.success = FALSE
            /\ c.result.commitSha = <<>>
            /\ \A k \in 1..Len(refUpdates) : refUpdates[k].by # p
            /\ c.newCommit # 0 => head # c.newCommit

\* Witness of C2: a call whose ref update was rejected after it had created
\* its commit.
C2_Witness ==
    \E p \in Callers :
        /\ cc[p].pc = "done"
        /\ cc[p].newCommit # 0
        /\ cc[p].log[Len(cc[p].log)][2] = "updateRef"
        /\ cc[p].log[Len(cc[p].log)][1] = "fail"

\* C3: the branch head advances monotonically. Every commit the ref is moved
\* to has exactly one parent, the head at the moment of the update; the
\* accepted updates form one chain from the initial head to the current one;
\* a successful call moved the ref from the head it read; two calls that read
\* the same head do not both succeed; every commit reported with success:true
\* stays in the history of the branch.
C3_HeadMonotonic ==
    /\ \A k \in 1..Len(refUpdates) :
          /\ commitObjs[refUpdates[k].to].parents = <<refUpdates[k].from>>
          /\ refUpdates[k].from = IF k = 1 THEN 1 ELSE refUpdates[k - 1].to
    /\ head = IF refUpdates = <<>> THEN 1 ELSE refUpdates[Len(refUpdates)].to
    /\ \A p \in Callers :
          Succeeded(cc[p]) =>
              \E k \in 1..Len(refUpdates) :
                  refUpdates[k] = [by |-> p, from |-> cc[p].ref,
                                   to |-> cc[p].newCommit]
    /\ \A p, q \in Callers :
          (p # q /\ Succeeded(cc[p]) /\ Succeeded(cc[q]))
              => cc[p].ref # cc[q].ref
    /\ reported \subseteq Ancestors(head)

\* Witness of C3: two calls read the same head; one moved the ref, the other
\* lost the race: the host rejected its update as not a fast-forward.
C3_Witness ==
    \E p, q \in Callers :
        /\ p # q
        /\ Succeeded(cc[p])
        /\ cc[q].pc = "done"
        /\ cc[q].ref = cc[p].ref
        /\ cc[q].log[Len(cc[q].log)] = Fail("updateRef", 1)

(***************************************************************************)
(* getAccessToken (githubTools.ts:6-40 for GitHub, 465-499 for Notion)     *)
(*                                                                         *)
(* The two copies differ only in the connector name of the fetch URL and   *)
(* in the text of the "not connected" error; each has its own module-level *)
(* connectionSettings and they share nothing, so one copy is modelled.     *)
(***************************************************************************)
TokCallers == {1, 2}

\* JavaScript's undefined, as a value of a string-typed field.
Undefined == "<undefined>"

\* JavaScript truthiness of a string-or-undefined value.
Truthy(v) == v \notin {Undefined, ""}

\* a || b
JsOr(a, b) == IF Truthy(a) THEN a ELSE b

\* The expiry times a connector response declares (the clock passes both).
ExpiryTimes == {1, 2}

\* What data.items?.[0] can be: undefined (kind "undefined"), an item without
\* settings (kind "nosettings"), or an item with settings. expires_at is <<>>
\* when absent, <<t>> when it parses to time t.
NoItem == [kind |-> "undefined", access_token |-> Undefined,
           oauth_token |-> Undefined, expires_at |-> <<>>]
NoSettings == [NoItem EXCEPT !.kind = "nosettings"]
Items ==
    {NoItem, NoSettings} \cup
    [kind : {"item"},
     access_token : {Undefined, "tokA"},
     oauth_token : {Undefined, "tokO"},
     expires_at : {<<>>} \cup {<<t>> : t \in ExpiryTimes}]

\* The identity forms present in process.env at a call.
Envs == [REPL_IDENTITY : BOOLEAN, WEB_REPL_RENEWAL : BOOLEAN]

\* Mutant: the cache is still used at the instant of expiry.
CacheFreshInclusive(cs, t) ==
    /\ cs.kind = "item"
    /\ cs.expires_at # <<>>
    /\ cs.expires_at[1] >= t

\* Line 9: connectionSettings && settings.expires_at &&
\* new Date(settings.expires_at).getTime() > Date.now()
CacheFresh(cs, t) ==
    /\ cs.kind = "item"
    /\ cs.expires_at # <<>>
    /\ cs.expires_at[1] > t

\* Mutant: the deployment token takes precedence.
XReplitTokenDeplFirst(env) ==
    IF env.WEB_REPL_RENEWAL THEN "depl"
    ELSE IF env.REPL_IDENTITY THEN "repl"
    ELSE "null"

\* Lines 14-18: 'repl ' + REPL_IDENTITY, else 'depl ' + WEB_REPL_RENEWAL,
\* else null.
XReplitToken(env) ==
    IF env.REPL_IDENTITY THEN "repl"
    ELSE IF env.WEB_REPL_RENEWAL THEN "depl"
    ELSE "null"

\* Mutant: the token under oauth.credentials takes precedence.
AccessTokenOfOauthFirst(cs) == JsOr(cs.oauth_token, cs.access_token)

\* Line 34: settings?.access_token || settings?.oauth?.credentials?.access_token
AccessTokenOf(cs) == JsOr(cs.access_token, cs.oauth_token)

Returned(v) == [kind |-> "token", value |-> v]
Thrown(msg) == [kind |-> "error", value |-> msg]

\* 'GitHub not connected' / 'Notion not connected'
NotConnected == "not connected"

IdleToken ==
    [pc |-> "idle", env |-> [REPL_IDENTITY |-> FALSE,
                             WEB_REPL_RENEWAL |-> FALSE],
     seq |-> 0, saw |-> "empty",
     header |-> "none", result |-> Thrown("")]

TokenInit ==
    /\ now = 0
    /\ connectionSettings = NoItem
    /\ tokenCalls = 0
    /\ tk = [p \in TokCallers |-> IdleToken]

\* How a call finds the cache at time t.
CacheState(cs, t) ==
    IF cs.kind = "undefined" THEN "empty"
    ELSE IF cs.kind = "nosettings" THEN "broken"
    ELSE IF cs.expires_at = <<>> THEN "noexpiry"
    ELSE IF t < cs.expires_at[1] THEN "fresh"
    ELSE IF t = cs.expires_at[1] THEN "atExpiry"
    ELSE "expired"

\* Time passes.
Tick ==
    /\ now < MaxTime
    /\ now' = now + 1
    /\ UNCHANGED <<connectionSettings, tokenCalls, tk, notToken>>

\* getAccessToken up to its first await: the cache test (line 9), the
\* identity (lines 13-22) and the fetch being issued (line 24). `env` is
\* process.env as the call read it; `header` the X_REPLIT_TOKEN its fetch was
\* issued with ("none" while it has issued no fetch); `seq` flips at every
\* call of p and `saw` records how the call found the cache.
GetAccessToken(p, env) ==
    /\ tk[p].pc \in {"idle", "done"}
    /\ tokenCalls < MaxTokenCalls
    /\ tokenCalls' = tokenCalls + 1
    /\ LET cs == connectionSettings
           c0 == [IdleToken EXCEPT !.env = env,
                                   !.seq = 1 - tk[p].seq,
                                   !.saw = CacheState(cs, now)]
       IN
       tk' = [tk EXCEPT ![p] =
                IF cs.kind = "nosettings"
                THEN [c0 EXCEPT !.pc = "done",
                                !.result = Thrown("TypeError")]
                ELSE IF CacheFresh(cs, now)
                THEN [c0 EXCEPT !.pc = "done",
                                !.result = Returned(cs.access_token)]
                ELSE IF XReplitToken(env) = "null"
                THEN [c0 EXCEPT !.pc = "done",
                                !.result = Thrown("X_REPLIT_TOKEN not found")]
                ELSE [c0 EXCEPT !.pc = "fetch",
                                !.header = XReplitToken(env)]]
    /\ UNCHANGED <<now, connectionSettings, notToken>>

\* The fetch rejects (network error, unparsable body): the assignment of
\* line 24 never happens.
FetchReject(p) ==
    /\ tk[p].pc = "fetch"
    /\ tk' = [tk EXCEPT ![p] = [@ EXCEPT !.pc = "done",
                                         !.result = Thrown("fetch failed")]]
    /\ UNCHANGED <<now, connectionSettings, tokenCalls, notToken>>

\* The fetch resolves with data.items?.[0] = item: lines 24-39.
FetchReturn(p, item) ==
    /\ tk[p].pc = "fetch"
    /\ connectionSettings' = item
    /\ tk' = [tk EXCEPT ![p] =
                [@ EXCEPT !.pc = "done",
                          !.result =
                             IF item.kind = "undefined"
                             THEN Thrown("TypeError")
                             ELSE IF ~Truthy(AccessTokenOf(item))
                             THEN Thrown(NotConnected)
                             ELSE Returned(AccessTokenOf(item))]]
    /\ UNCHANGED <<now, tokenCalls, notToken>>

TokenNext ==
    \/ Tick
    \/ \E p \in TokCallers, env \in Envs : GetAccessToken(p, env)
    \/ \E p \in TokCallers : FetchReject(p)
    \/ \E p \in TokCallers, item \in Items : FetchReturn(p, item)

(***************************************************************************)
(* Properties of getAccessToken                                            *)
(***************************************************************************)

\* Caller p enters getAccessToken in this step.
Begins(p) == tk'[p].seq # tk[p].seq

HasIdentity(env) == env.REPL_IDENTITY \/ env.WEB_REPL_RENEWAL

\* The cache holds settings with an expiry.
HasExpiry(cs) == cs.kind = "item" /\ cs.expires_at # <<>>

C5_UsableTokenOrError ==
    [][\A p \in TokCallers :
         /\ (tk'[p].pc = "done" /\ tk'[p].result.kind = "token")
               => Truthy(tk'[p].result.value)
         /\ (/\ tk[p].pc = "fetch"
             /\ tk'[p].pc = "done"
             /\ tk'[p].result # Thrown("fetch failed")
             /\ ~Truthy(connectionSettings'.access_token)
             /\ ~Truthy(connectionSettings'.oauth_token))
               => tk'[p].result.kind = "error"]_vars

\* C6: a call that finds the cache empty or expired with neither identity
\* form present throws the configuration error without issuing a fetch and
\* leaves connectionSettings as it was; a fetch is always issued with an
\* identity, the interactive one when both forms are present.
C6_IdentityRequired ==
    [][\A p \in TokCallers :
         Begins(p) =>
            /\ (/\ connectionSettings.kind # "nosettings"
                /\ ~(/\ HasExpiry(connectionSettings)
                     /\ now < connectionSettings.expires_at[1])
                /\ ~HasIdentity(tk'[p].env))
                  => /\ tk'[p].pc = "done"
                     /\ tk'[p].result = Thrown("X_REPLIT_TOKEN not found")
                     /\ tk'[p].header = "none"
                     /\ connectionSettings' = connectionSettings
            /\ tk'[p].pc = "fetch" =>
                  /\ HasIdentity(tk'[p].env)
                  /\ tk'[p].header =
                        IF tk'[p].env.REPL_IDENTITY THEN "repl" ELSE "depl"]_vars

\* Witness of C6: a call that read an expired cache with no identity form
\* present ended with the configuration error and no fetch.
C6_Witness ==
    \E p \in TokCallers :
        /\ tk[p].pc = "done"
        /\ tk[p].saw \in {"atExpiry", "expired"}
        /\ ~HasIdentity(tk[p].env)
        /\ tk[p].header = "none"
        /\ tk[p].result = Thrown("X_REPLIT_TOKEN not found")

\* A second witness of C6: a fetch in flight issued with both forms present.
C6_WitnessBoth ==
    \E p \in TokCallers :
        /\ tk[p].pc = "fetch"
        /\ tk[p].env.REPL_IDENTITY /\ tk[p].env.WEB_REPL_RENEWAL

\* The call of p found no cache it could answer from and fetches.
Refreshing(p) ==
    /\ tk[p].pc = "fetch"
    /\ tk[p].saw \in {"empty", "noexpiry", "atExpiry", "expired"}

\* C23: when the fetch of a caller completes, whatever the other caller
\* does meanwhile, the caller returns the token of the response of its own
\* fetch, settings.access_token before the one under oauth.credentials,
\* or fails; the step writes the whole response into the cache and leaves
\* the other caller's execution alone; and the cache is written by no
\* other step, so that it always holds the response of a completed fetch.
C23_ConcurrentRefresh ==
    [][/\ \A p \in TokCallers :
            (Refreshing(p) /\ tk'[p].pc = "done") =>
               /\ \A q \in TokCallers \ {p} : tk'[q] = tk[q]
               /\ connectionSettings' \in Items
               /\ tk'[p].result.kind = "token" =>
                     /\ connectionSettings'.kind = "item"
                     /\ tk'[p].result.value =
                           IF Truthy(connectionSettings'.access_token)
                           THEN connectionSettings'.access_token
                           ELSE connectionSettings'.oauth_token
                     /\ Truthy(tk'[p].result.value)
               /\ tk'[p].result.kind = "error" =>
                     \/ connectionSettings' = connectionSettings
                     \/ /\ ~Truthy(connectionSettings'.access_token)
                        /\ ~Truthy(connectionSettings'.oauth_token)
       /\ connectionSettings' # connectionSettings =>
            \E p \in TokCallers : Refreshing(p) /\ tk'[p].pc = "done"]_vars

\* Witness of C23: both callers found the cache empty, so neither had
\* completed when the other began; each fetched and returned the token of
\* its own response, and the cache holds the response of one of them.
C23_Witness ==
    /\ \A p \in TokCallers :
          /\ tk[p].pc = "done"
          /\ tk[p].saw = "empty"
          /\ tk[p].header # "none"
    /\ tk[1].result = Returned("tokA")
    /\ tk[2].result = Returned("tokO")
    /\ connectionSettings.kind = "item"
    /\ AccessTokenOf(connectionSettings) \in {"tokA", "tokO"}

\* The call of p begins and is answered from the cache (lines 9-11).
AnsweredFromCache(p) ==
    /\ Begins(p)
    /\ tk'[p].pc = "done"
    /\ tk'[p].saw = "fresh"

\* C28: a call answered from the cache returns the token that the fetch
\* which filled the cache returned to its caller, whichever of the two
\* places of the response that token was in.
C28_CacheReturnsFetchedToken ==
    [][\A p \in TokCallers :
          (AnsweredFromCache(p) /\ Truthy(AccessTokenOf(connectionSettings))) =>
              tk'[p].result = Returned(AccessTokenOf(connectionSettings))]_vars

(***************************************************************************)
(* createPullRequest (githubTools.ts:226-305)                              *)
(*                                                                         *)
(* Text is a sequence of parts, so that concatenation is visible.          *)
(***************************************************************************)
PrCallers == {1, 2}

\* The optional `reviewers` input: absent, or a list of user names.
ReviewerInputs ==
    {[present |-> FALSE, names |-> <<>>],
     [present |-> TRUE, names |-> <<>>],
     [present |-> TRUE, names |-> <<"alice", "bob">>]}

\* The inputs of a call that the handler acts on: body, the optional
\* notionTaskUrl and reviewers. title, head, base and draft are passed to the
\* host as they are.
PrInputs ==
    [body : {<<>>, <<"body">>},
     notionTaskUrl : {Undefined, "", "https://notion/task"},
     reviewers : ReviewerInputs]

RelatedTask(url) == <<"\n\n## Related Task\n- Original Notion Task: ", url>>
ReviewChecklist == <<"\n\n## Review Checklist ...">>

\* Mutant: the back-link is added whenever notionTaskUrl is given.
PrBodyLinked(in) ==
    (in.body \o (IF in.notionTaskUrl # Undefined
                 THEN RelatedTask(in.notionTaskUrl) ELSE <<>>))
        \o ReviewChecklist

\* Lines 258-262: the body submitted with pulls.create.
PrBody(in) ==
    (in.body \o (IF Truthy(in.notionTaskUrl)
                 THEN RelatedTask(in.notionTaskUrl) ELSE <<>>))
        \o ReviewChecklist

\* Mutant: reviews are requested whenever the list is given.
HasReviewersGiven(r) == r.present

\* Line 278: reviewers && reviewers.length > 0
HasReviewers(r) == r.present /\ Len(r.names) > 0

\* Lines 290-295: the success return.
PrSuccess(c, number) ==
    [success |-> TRUE, pullRequestUrl |-> <<number>>,
     pullRequestNumber |-> <<number>>]

\* Mutant: the failure return reports the pull request that was created.
PrFailureWithNumber(c) ==
    [success |-> FALSE,
     pullRequestUrl |-> IF c.pullRequest = 0 THEN <<>> ELSE <<c.pullRequest>>,
     pullRequestNumber |->
        IF c.pullRequest = 0 THEN <<>> ELSE <<c.pullRequest>>]

\* Lines 296-303: the catch return.
PrFailure(c) ==
    [success |-> FALSE, pullRequestUrl |-> <<>>, pullRequestNumber |-> <<>>]

PrCaught(c, op) ==
    [c EXCEPT !.pc = "done",
              !.result = PrFailure(c),
              !.log = Append(c.log, Fail(op, 0))]

IdlePr ==
    [pc |-> "idle", seq |-> 0,
     in |-> [body |-> <<>>, notionTaskUrl |-> Undefined,
             reviewers |-> [present |-> FALSE, names |-> <<>>]],
     pullRequest |-> 0,
     result |-> [success |-> FALSE, pullRequestUrl |-> <<>>,
                 pullRequestNumber |-> <<>>],
     log |-> <<>>]

PrInit ==
    /\ pulls = <<>>
    /\ prCalls = 0
    /\ pr = [p \in PrCallers |-> IdlePr]

\* execute is entered; it awaits the client.
StartCreatePullRequest(p, in) ==
    /\ pr[p].pc \in {"idle", "done"}
    /\ prCalls < MaxPrCalls
    /\ prCalls' = prCalls + 1
    /\ pr' = [pr EXCEPT ![p] = [IdlePr EXCEPT !.pc = "client",
                                              !.seq = prCalls + 1,
                                              !.in = in]]
    /\ UNCHANGED <<pulls, notPr>>

\* getUncachableGitHubClient returns or throws; on return the body is built
\* and pulls.create is issued.
PrClientReturn(p, ok) ==
    /\ pr[p].pc = "client"
    /\ pr' = [pr EXCEPT ![p] =
                IF ok
                THEN [@ EXCEPT !.pc = "create",
                               !.log = Append(@, Call("pulls.create", 0))]
                ELSE PrCaught(@, "client")]
    /\ UNCHANGED <<pulls, prCalls, notPr>>

\* pulls.create settles. The host numbers the new pull request; the handler
\* then requests the reviews, or returns.
PullsCreateReturn(p, ok) ==
    /\ pr[p].pc = "create"
    /\ LET number == Len(pulls) + 1 IN
       IF ok
       THEN /\ pulls' = Append(pulls,
                           [by |-> p, seq |-> pr[p].seq, state |-> "open",
                            body |-> PrBody(pr[p].in),
                            requested_reviewers |-> <<>>])
            /\ pr' = [pr EXCEPT ![p] =
                        IF HasReviewers(pr[p].in.reviewers)
                        THEN [@ EXCEPT
                                !.pc = "reviewers",
                                !.pullRequest = number,
                                !.log = @ \o
                                    <<Ret("pulls.create", number),
                                      Call("pulls.requestReviewers", number)>>]
                        ELSE [@ EXCEPT
                                !.pc = "done",
                                !.pullRequest = number,
                                !.result = PrSuccess(@, number),
                                !.log = Append(@, Ret("pulls.create", number))]]
       ELSE /\ pulls' = pulls
            /\ pr' = [pr EXCEPT ![p] = PrCaught(@, "pulls.create")]
    /\ UNCHANGED <<prCalls, notPr>>

\* pulls.requestReviewers settles: the host records the reviewers, or rejects
\* the request (an unknown user, the author as reviewer).
RequestReviewersReturn(p, ok) ==
    /\ pr[p].pc = "reviewers"
    /\ LET number == pr[p].pullRequest IN
       IF ok
       THEN /\ pulls' = [pulls EXCEPT ![number].requested_reviewers =
                                          pr[p].in.reviewers.names]
            /\ pr' = [pr EXCEPT ![p] =
                        [@ EXCEPT
                            !.pc = "done",
                            !.result = PrSuccess(@, number),
                            !.log = Append(@,
                                      Ret("pulls.requestReviewers", number))]]
       ELSE /\ pulls' = pulls
            /\ pr' = [pr EXCEPT ![p] = PrCaught(@, "pulls.requestReviewers")]
    /\ UNCHANGED <<prCalls, notPr>>

PrNext ==
    \/ \E p \in PrCallers, in \in PrInputs : StartCreatePullRequest(p, in)
    \/ \E p \in PrCallers, ok \in BOOLEAN : PrClientReturn(p, ok)
    \/ \E p \in PrCallers, ok \in BOOLEAN : PullsCreateReturn(p, ok)
    \/ \E p \in PrCallers, ok \in BOOLEAN : RequestReviewersReturn(p, ok)

(***************************************************************************)
(* Properties of createPullRequest                                         *)
(***************************************************************************)

Issued(log, op) == \E k \in 1..Len(log) : log[k][1] = "call" /\ log[k][2] = op

\* C7: the reviewer request is issued only after pulls.create has returned
\* successfully, for the number of the pull request this call created; it is
\* issued exactly when the creation succeeded and the reviewers list is
\* non-empty: never after a failed creation, never for an absent or empty
\* list.
C7_ReviewersAfterCreate ==
    \A p \in PrCallers :
        LET c == pr[p] IN
        /\ \A k \in 1..Len(c.log) :
              (c.log[k][1] = "call" /\ c.log[k][2] = "pulls.requestReviewers")
                 => /\ k > 1
                    /\ c.log[k - 1] = Ret("pulls.create", c.log[k][3])
                    /\ c.log[k][3] \in 1..Len(pulls)
                    /\ pulls[c.log[k][3]].by = p
                    /\ pulls[c.log[k][3]].seq = c.seq
                    /\ c.in.reviewers.present
                    /\ c.in.reviewers.names # <<>>
        /\ (\E k \in 1..Len(c.log) : c.log[k] = Fail("pulls.create", 0))
              => ~Issued(c.log, "pulls.requestReviewers")
        /\ (~c.in.reviewers.present \/ c.in.reviewers.names = <<>>)
              => ~Issued(c.log, "pulls.requestReviewers")
        /\ (/\ c.in.reviewers.present
            /\ c.in.reviewers.names # <<>>
            /\ \E n \in 1..Len(pulls) :
                  Ret("pulls.create", n) \in {c.log[k] : k \in 1..Len(c.log)})
              => Issued(c.log, "pulls.requestReviewers")

\* Witness of C7: two calls with reviewers created their pull requests one
\* after the other, and each has requested reviews for its own.
C7_Witness ==
    \E p, q \in PrCallers :
        /\ p # q
        /\ Issued(pr[p].log, "pulls.requestReviewers")
        /\ Issued(pr[q].log, "pulls.requestReviewers")
        /\ pr[p].pullRequest = 2
        /\ pr[q].pullRequest = 1

\* C8: when pulls.create succeeded and the reviewer request failed, the tool
\* returns success:false with neither pullRequestUrl nor pullRequestNumber,
\* and the pull request it created is still open on the host.
C8_PartialFailure ==
    \A p \in PrCallers :
        LET c == pr[p] IN
        (\E k \in 1..Len(c.log) : c.log[k] = Fail("pulls.requestReviewers", 0))
           => /\ c.pc = "done"
              /\ c.result.success = FALSE
              /\ c.result.pullRequestUrl = <<>>
              /\ c.result.pullRequestNumber = <<>>
              /\ c.pullRequest \in 1..Len(pulls)
              /\ pulls[c.pullRequest].by = p
              /\ pulls[c.pullRequest].seq = c.seq
              /\ pulls[c.pullRequest].state = "open"

\* Witness of C8: a pull request exists and the tool that created it has
\* reported failure.
C8_Witness ==
    \E p \in PrCallers :
        /\ pr[p].pc = "done"
        /\ ~pr[p].result.success
        /\ pr[p].pullRequest \in 1..Len(pulls)
        /\ pulls[pr[p].pullRequest].state = "open"

\* The pull requests whose call is the last one of its caller, so that the
\* inputs of the call are at hand.
Submitted == {n \in DOMAIN pulls : pr[pulls[n].by].seq = pulls[n].seq}

InputsOf(n) == pr[pulls[n].by].in

\* The number of parts of `body` that are `part`.
Occurrences(body, part) ==
    Cardinality({k \in DOMAIN body : body[k] = part})

\* C27 as stated: the body submitted is the caller's body, then the
\* back-link section if and only if notionTaskUrl is given, then the
\* review checklist.
C27_Original ==
    \A n \in Submitted :
        pulls[n].body =
            InputsOf(n).body
              \o (IF InputsOf(n).notionTaskUrl # Undefined
                  THEN <<"\n\n## Related Task\n- Original Notion Task: ",
                         InputsOf(n).notionTaskUrl>>
                  ELSE <<>>)
              \o <<"\n\n## Review Checklist ...">>

\* C27, amended: the body submitted is the caller's body, then the
\* back-link section if and only if notionTaskUrl is given and is not the
\* empty string, then the review checklist; the checklist is appended
\* once, and the caller's body is a prefix of the body submitted.
C27_BodyComposed ==
    \A n \in Submitted :
        LET in == InputsOf(n)
            linked == in.notionTaskUrl \notin {Undefined, ""}
            body == pulls[n].body
        IN  /\ body =
                  in.body
                    \o (IF linked
                        THEN <<"\n\n## Related Task\n- Original Notion Task: ",
                               in.notionTaskUrl>>
                        ELSE <<>>)
                    \o <<"\n\n## Review Checklist ...">>
            /\ SubSeq(body, 1, Len(in.body)) = in.body
            /\ body[Len(body)] = "\n\n## Review Checklist ..."
            /\ Occurrences(body, "\n\n## Review Checklist ...") = 1
            /\ Len(body) = Len(in.body) + (IF linked THEN 3 ELSE 1)

\* Witness of C27: a pull request was created by a call given a body and
\* the empty string as notionTaskUrl: the body submitted is the caller's
\* body and the checklist.
C27_Witness ==
    \E n \in Submitted :
        /\ InputsOf(n).body = <<"body">>
        /\ InputsOf(n).notionTaskUrl = ""
        /\ pulls[n].body = <<"body", "\n\n## Review Checklist ...">>

(***************************************************************************)
(* getRepositoryContent (githubTools.ts:307-402)                           *)
(***************************************************************************)

\* Line 361: the 100KB limit.
ContentLimit == 100000

\* The sizes the host reports, around the limit.
Sizes == {0, 1, ContentLimit - 1, ContentLimit}

\* An entry of the host's answer to repos.getContent.
Entries == [type : {"file", "dir"}, size : Sizes]

RECURSIVE SeqsUpTo(_, _)
\* The sequences over S of length 0..n.
SeqsUpTo(S, n) ==
    IF n = 0 THEN {<<>>}
    ELSE LET shorter == SeqsUpTo(S, n - 1) IN
         shorter \cup {Append(q, x) : q \in {r \in shorter : Len(r) = n - 1},
                                      x \in S}

\* response.data: an array of entries (a directory), or one object (a file).
Listings ==
    [array : {TRUE}, entries : SeqsUpTo(Entries, MaxItems)]
        \cup [array : {FALSE}, entries : {<<e>> : e \in Entries}]

\* Line 348: Array.isArray(response.data) ? response.data : [response.data]
ItemsOf(data) == data.entries

\* The base64 alphabet.
B64Alphabet ==
    <<"A", "B", "C", "D", "E", "F", "G", "H", "I", "J", "K", "L", "M",
      "N", "O", "P", "Q", "R", "S", "T", "U", "V", "W", "X", "Y", "Z",
      "a", "b", "c", "d", "e", "f", "g", "h", "i", "j", "k", "l", "m",
      "n", "o", "p", "q", "r", "s", "t", "u", "v", "w", "x", "y", "z",
      "0", "1", "2", "3", "4", "5", "6", "7", "8", "9", "+", "/">>

IsB64(ch) == \E k \in 1..Len(B64Alphabet) : B64Alphabet[k] = ch
B64Value(ch) == (CHOOSE k \in 1..Len(B64Alphabet) : B64Alphabet[k] = ch) - 1

RECURSIVE UpToPadding(_)
\* The text before the first "=".
UpToPadding(text) ==
    IF text = <<>> \/ Head(text) = "=" THEN <<>>
    ELSE <<Head(text)>> \o UpToPadding(Tail(text))

\* The 6-bit values of a base64 text; line breaks and other text outside the
\* alphabet are skipped.
Sextets(text) ==
    LET kept == SelectSeq(UpToPadding(text), IsB64)
    IN  [k \in 1..Len(kept) |-> B64Value(kept[k])]

RECURSIVE BytesOf(_)
\* The bytes of a sequence of 6-bit values: 4 values give 3 bytes, a last
\* group of 3 gives 2, of 2 gives 1.
BytesOf(v) ==
    IF Len(v) < 2 THEN <<>>
    ELSE LET b1 == v[1] * 4 + v[2] \div 16 IN
         IF Len(v) = 2 THEN <<b1>>
         ELSE LET b2 == (v[2] % 16) * 16 + v[3] \div 4 IN
              IF Len(v) = 3 THEN <<b1, b2>>
              ELSE <<b1, b2, (v[3] % 4) * 64 + v[4]>>
                       \o BytesOf(SubSeq(v, 5, Len(v)))

\* Buffer.from(text, 'base64')
Base64Decode(text) == BytesOf(Sextets(text))

IsContinuation(b) == b >= 128 /\ b <= 191

RECURSIVE Utf8Decode(_)
\* buffer.toString('utf-8'): the code points of the bytes, one- and two-byte
\* sequences decoded, any other byte replaced by U+FFFD.
Utf8Decode(b) ==
    IF b = <<>> THEN <<>>
    ELSE IF b[1] < 128 THEN <<b[1]>> \o Utf8Decode(Tail(b))
    ELSE IF b[1] >= 194 /\ b[1] <= 223 /\ Len(b) >= 2 /\ IsContinuation(b[2])
    THEN <<(b[1] - 192) * 64 + (b[2] - 128)>>
             \o Utf8Decode(SubSeq(b, 3, Len(b)))
    ELSE <<65533>> \o Utf8Decode(Tail(b))

\* Line 373: Buffer.from(content, 'base64').toString('utf-8')
DecodeContent(text) == Utf8Decode(Base64Decode(text))

\* The `content` of the host's answer for one file: "" (or no content),
\* "QQ==" (the text A), "w6k=" with a line break (the text e-acute), "yEE="
\* (an invalid byte, then A).
FileContents ==
    {<<>>,
     <<"Q", "Q", "=", "=">>,
     <<"w", "6", "\n", "k", "=">>,
     <<"y", "E", "E", "=">>}

\* How the fetch of one file settles: it rejects, or resolves with content.
FetchOutcomes ==
    {[ok |-> FALSE, content |-> <<>>]} \cup [ok : {TRUE}, content : FileContents]

\* Line 361: item.type === 'file' && item.size && item.size < 100000
ShouldFetch(item) ==
    item.type = "file" /\ item.size # 0 /\ item.size < ContentLimit

\* Lines 352-358: the item without content.
BaseItem(item) == [type |-> item.type, size |-> item.size, content |-> <<>>]

\* Lines 370-375: the item with its decoded content.
WithContent(item, text) ==
    [type |-> item.type, size |-> item.size,
     content |-> <<DecodeContent(text)>>]

RcFailure == [success |-> FALSE, items |-> <<>>]

IdleRc ==
    [pc |-> "idle", listed |-> FALSE, array |-> TRUE, items |-> <<>>,
     fetch |-> <<>>,
     answer |-> <<>>, processedItems |-> <<>>,
     result |-> RcFailure]

ContentInit == rc = IdleRc

\* Lines 385-391: once Promise.all has resolved, the success return.
AfterItems(c) ==
    IF \A i \in DOMAIN c.fetch : c.fetch[i] # "inflight"
    THEN [c EXCEPT !.pc = "done",
                   !.result = [success |-> TRUE, items |-> c.processedItems]]
    ELSE c

\* Mutant: the error of one file's fetch is not caught per file; it rejects
\* Promise.all and reaches the outer catch.
FetchErrorRethrown(c, i) ==
    [c EXCEPT !.pc = "done", !.fetch[i] = "failed", !.result = RcFailure]

\* Lines 376-381: the error is caught, a warning logged, the base item
\* returned.
FetchErrorCaught(c, i) == AfterItems([c EXCEPT !.fetch[i] = "failed"])

\* execute is entered; it awaits the client.
StartGetRepositoryContent ==
    /\ rc.pc = "idle"
    /\ rc' = [rc EXCEPT !.pc = "client"]
    /\ UNCHANGED notContent

\* getUncachableGitHubClient returns or throws; on return repos.getContent
\* is issued for the path.
RcClientReturn(ok) ==
    /\ rc.pc = "client"
    /\ rc' = IF ok THEN [rc EXCEPT !.pc = "list"]
             ELSE [rc EXCEPT !.pc = "done", !.result = RcFailure]
    /\ UNCHANGED notContent

\* The listing rejects: the outer catch returns the failure.
ListingReject ==
    /\ rc.pc = "list"
    /\ rc' = [rc EXCEPT !.pc = "done", !.result = RcFailure]
    /\ UNCHANGED notContent

\* The listing resolves with `data`. items.map runs each item up to its
\* await: a fetch is issued for every item that passes the test of line 361,
\* every other item is returned as its base item.
ListingReturn(data) ==
    /\ rc.pc = "list"
    /\ LET items == ItemsOf(data) IN
       rc' = AfterItems(
                [rc EXCEPT
                    !.pc = "fetch",
                    !.listed = TRUE,
                    !.array = data.array,
                    !.items = items,
                    !.fetch = [i \in 1..Len(items) |->
                                 IF ShouldFetch(items[i])
                                 THEN "inflight" ELSE "none"],
                    !.answer = [i \in 1..Len(items) |-> <<>>],
                    !.processedItems = [i \in 1..Len(items) |->
                                          BaseItem(items[i])]])
    /\ UNCHANGED notContent

\* The fetch of item i settles, in any order among the fetches in flight.
\* `fetch[i]` and `answer[i]` record how, `listed` that the listing resolved.
ContentReturn(i, out) ==
    /\ rc.pc = "fetch"
    /\ i \in DOMAIN rc.fetch
    /\ rc.fetch[i] = "inflight"
    /\ rc' = IF ~out.ok
             THEN FetchErrorCaught(rc, i)
             ELSE IF out.content # <<>>
             THEN AfterItems(
                    [rc EXCEPT !.fetch[i] = "content",
                               !.answer[i] = out.content,
                               !.processedItems[i] =
                                  WithContent(rc.items[i], out.content)])
             ELSE AfterItems([rc EXCEPT !.fetch[i] = "empty"])
    /\ UNCHANGED notContent

ContentNext ==
    \/ StartGetRepositoryContent
    \/ \E ok \in BOOLEAN : RcClientReturn(ok)
    \/ ListingReject
    \/ \E data \in Listings : ListingReturn(data)
    \/ \E i \in 1..MaxItems, out \in FetchOutcomes : ContentReturn(i, out)

(***************************************************************************)
(* Properties of getRepositoryContent                                      *)
(***************************************************************************)

RcReturned == rc.pc = "done" /\ rc.result.success

\* C9: an item with size >= 100000 never carries content; for every item of
\* type file with size < 100000, size 0 included, a content fetch is
\* attempted; an item of type dir never triggers a content fetch.
C9_ContentThreshold ==
    rc.pc \in {"fetch", "done"} =>
        \A i \in 1..Len(rc.items) :
            /\ rc.items[i].size >= ContentLimit
                  => rc.processedItems[i].content = <<>>
            /\ (rc.items[i].type = "file" /\ rc.items[i].size < ContentLimit)
                  => rc.fetch[i] # "none"
            /\ rc.items[i].type = "dir" => rc.fetch[i] = "none"

\* C10: whatever subset of the content fetches fails, the tool returns
\* success:true with one item per listed entry, in listing order; an item
\* carries content exactly when its fetch was made and resolved with
\* non-empty content, and that content is the decoded text the host sent.
C10_FetchFailuresSwallowed ==
    /\ (rc.pc = "done" /\ rc.listed) => rc.result.success
    /\ RcReturned =>
          /\ Len(rc.result.items) = Len(rc.items)
          /\ \A i \in 1..Len(rc.items) :
                LET out == rc.result.items[i] IN
                /\ out.type = rc.items[i].type
                /\ out.size = rc.items[i].size
                /\ rc.fetch[i] \in {"none", "failed", "empty", "content"}
                /\ rc.fetch[i] \in {"none", "failed", "empty"}
                      => out.content = <<>>
                /\ rc.fetch[i] = "content"
                      => /\ rc.answer[i] # <<>>
                         /\ out.content =
                               <<Utf8Decode(Base64Decode(rc.answer[i]))>>
                         /\ out.content \in
                               {<< <<65>> >>, << <<233>> >>, << <<65533, 65>> >>}

\* Witness of C10: of two listed files one fetch failed and the other
\* resolved with content; the tool returned both items.
C10_Witness ==
    /\ RcReturned
    /\ \E i, j \in 1..Len(rc.items) :
          /\ rc.fetch[i] = "failed"
          /\ rc.fetch[j] = "content"
          /\ rc.result.items[j].content = << <<233>> >>

(***************************************************************************)
(* Text: a string is the sequence of its characters.                       *)
(***************************************************************************)

\* White space: \s of a regular expression, and what trim removes.
IsSpace(ch) == ch \in {" ", "\n", "\t", "\r"}

\* String.prototype.toLowerCase
ToLowerCase(text) ==
    LET upper ==
            <<"A", "B", "C", "D", "E", "F", "G", "H", "I", "J", "K", "L", "M",
              "N", "O", "P", "Q", "R", "S", "T", "U", "V", "W", "X", "Y", "Z">>
        lower ==
            <<"a", "b", "c", "d", "e", "f", "g", "h", "i", "j", "k", "l", "m",
              "n", "o", "p", "q", "r", "s", "t", "u", "v", "w", "x", "y", "z">>
        LowerOf(ch) ==
            IF \E k \in 1..Len(upper) : upper[k] = ch
            THEN lower[CHOOSE k \in 1..Len(upper) : upper[k] = ch]
            ELSE ch
    IN  [k \in 1..Len(text) |-> LowerOf(text[k])]

\* String.prototype.includes
Includes(text, part) ==
    \E k \in 0..(Len(text) - Len(part)) :
        SubSeq(text, k + 1, k + Len(part)) = part

(***************************************************************************)
(* The error boundary of the tools of the agent's registry                 *)
(* (ctoAgent.ts:41-60; githubTools.ts, developmentTools.ts).               *)
(*                                                                         *)
(* Every tool's execute is one try/catch around its awaited calls.  A tool *)
(* is described by the calls its try block awaits, in order, by what the   *)
(* try block throws by itself, by what it returns when nothing failed, and *)
(* by its catch block, entered with the error e: it rethrows e, or returns *)
(* a result.  An error is the text of its message.                         *)
(***************************************************************************)

\* The tools registered with the agent.
Registry ==
    {"readKanbanBoard", "updateTaskStatus", "addTaskComment",
     "queryTaskDetails", "createBranch", "commitCode", "createPullRequest",
     "getRepositoryContent", "listRepositoryBranches", "analyzeCodebase",
     "implementCodeChanges", "runCodeTests", "validateCodeQuality"}

\* The inputs of a tool call, as far as the control flow reads them: the
\* task description "Add dark mode" or "Cleanup: DROP TABLE sessions", the
\* requirements "A toggle in settings" or "Truncated logs are fine".
ToolInputs ==
    [tool : Registry \ {"implementCodeChanges", "createPullRequest"},
     taskDescription : {<<>>}, requirements : {<<>>}, reviewers : {FALSE}]
    \cup [tool : {"createPullRequest"},
          taskDescription : {<<>>}, requirements : {<<>>},
          reviewers : BOOLEAN]
    \cup [tool : {"implementCodeChanges"},
          taskDescription :
              {<<"A", "d", "d", " ", "d", "a", "r", "k", " ", "m", "o",
                 "d", "e">>,
               <<"C", "l", "e", "a", "n", "u", "p", ":", " ", "D", "R",
                 "O", "P", " ", "T", "A", "B", "L", "E", " ", "s", "e",
                 "s", "s", "i", "o", "n", "s">>,
               <<"F", "i", "x", " ", "U", "I", " ", "b", "u", "g", " ",
                 "i", "n", " ", "A", "P", "I">>,
               <<"I", "m", "p", "r", "o", "v", "e", " ", "s", "e", "c",
                 "u", "r", "i", "t", "y">>,
               <<"S", "e", "c", "u", "r", "i", "t", "y", ":", " ", "o",
                 "p", "t", "i", "m", "i", "z", "e">>,
               <<"O", "p", "t", "i", "m", "i", "z", "e", " ", "f", "r",
                 "o", "n", "t", "e", "n", "d">>,
               <<"B", "u", "i", "l", "d", " ", "b", "a", "c", "k", "e",
                 "n", "d">>,
               <<"N", "e", "w", " ", "b", "a", "c", "k", "e", "n", "d">>},
          requirements :
              {<<"A", " ", "t", "o", "g", "g", "l", "e", " ", "i", "n",
                 " ", "s", "e", "t", "t", "i", "n", "g", "s">>,
               <<"T", "r", "u", "n", "c", "a", "t", "e", "d", " ", "l",
                 "o", "g", "s", " ", "a", "r", "e", " ", "f", "i", "n", "e">>},
          reviewers : {FALSE}]

\* The errors an awaited call rejects with.
ErrorsOf(call) ==
    IF call = "getAccessToken"
    THEN {<<"X_REPLIT_TOKEN not found for repl/depl">>, <<"not connected">>,
          <<"fetch failed">>}
    ELSE {<<call, " rejected">>, <<"rate limit exceeded">>}

\* A catch block that returns r, and one that rethrows.
Returns(r) == [rethrows |-> FALSE, result |-> <<r>>]
Rethrows == [rethrows |-> TRUE, result |-> <<>>]

CreateBranchTool(in, e) ==
    [awaits |-> <<"getAccessToken", "git.getRef", "git.createRef">>,
     throws |-> <<>>,
     returns |-> [success |-> TRUE, branchName |-> "branchName",
                  sha |-> "sha", message |-> <<"created">>],
     catch |-> Returns([success |-> FALSE, branchName |-> "branchName",
                        sha |-> "",
                        message |-> <<"Failed to create branch: ">> \o e])]

\* Promise.all over the createBlob calls is one awaited promise.
CommitCodeTool(in, e) ==
    [awaits |-> <<"getAccessToken", "git.getRef", "git.getCommit",
                  "git.createBlob", "git.createTree", "git.createCommit",
                  "git.updateRef">>,
     throws |-> <<>>,
     returns |-> [success |-> TRUE, commitSha |-> "sha",
                  message |-> <<"committed">>],
     catch |-> Returns([success |-> FALSE,
                        message |-> <<"Failed to commit code: ">> \o e])]

\* The reviewers are requested only when given.
CreatePullRequestTool(in, e) ==
    [awaits |-> <<"getAccessToken", "pulls.create">>
                    \o (IF in.reviewers THEN <<"pulls.requestReviewers">>
                        ELSE <<>>),
     throws |-> <<>>,
     returns |-> [success |-> TRUE, pullRequestUrl |-> "url",
                  pullRequestNumber |-> 1, message |-> <<"created">>],
     catch |-> Returns([success |-> FALSE,
                        message |->
                            <<"Failed to create pull request: ">> \o e])]

\* The content fetches sit in a try/catch of their own.
GetRepositoryContentTool(in, e) ==
    [awaits |-> <<"getAccessToken", "repos.getContent",
                  "repos.getContent(file)">>,
     throws |-> <<>>,
     returns |-> [success |-> TRUE, items |-> <<"item">>,
                  message |-> <<"retrieved">>],
     catch |-> Returns([success |-> FALSE, items |-> <<>>,
                        message |->
                            <<"Failed to get repository content: ">> \o e])]

\* Lines 363-378: the calls whose rejection an inner catch only logs.
InnerCaught(call) == call = "repos.getContent(file)"

ListRepositoryBranchesTool(in, e) ==
    [awaits |-> <<"getAccessToken", "repos.listBranches">>,
     throws |-> <<>>,
     returns |-> [success |-> TRUE, branches |-> <<"branch">>,
                  message |-> <<"found">>],
     catch |-> Returns([success |-> FALSE, branches |-> <<>>,
                        message |-> <<"Failed to list branches: ">> \o e])]

\* Mutant: the catch block returns an empty board.
ReadKanbanBoardToolEmpty(in, e) ==
    [awaits |-> <<"getAccessToken", "search">>,
     throws |-> <<>>,
     returns |-> [tasks |-> <<"task">>],
     catch |-> Returns([tasks |-> <<>>])]

ReadKanbanBoardTool(in, e) ==
    [awaits |-> <<"getAccessToken", "search">>,
     throws |-> <<>>,
     returns |-> [tasks |-> <<"task">>],
     catch |-> Rethrows]

UpdateTaskStatusTool(in, e) ==
    [awaits |-> <<"getAccessToken", "pages.update">>,
     throws |-> <<>>,
     returns |-> [success |-> TRUE, message |-> <<"updated">>],
     catch |-> Returns([success |-> FALSE,
                        message |->
                            <<"Failed to update task status: ">> \o e])]

AddTaskCommentTool(in, e) ==
    [awaits |-> <<"getAccessToken", "comments.create">>,
     throws |-> <<>>,
     returns |-> [success |-> TRUE, message |-> <<"added">>],
     catch |-> Returns([success |-> FALSE,
                        message |-> <<"Failed to add comment: ">> \o e])]

QueryTaskDetailsTool(in, e) ==
    [awaits |-> <<"getAccessToken", "pages.retrieve",
                  "blocks.children.list">>,
     throws |-> <<>>,
     returns |-> [task |-> "task"],
     catch |-> Rethrows]

\* No awaited call.
AnalyzeCodebaseTool(in, e) ==
    [awaits |-> <<>>, throws |-> <<>>,
     returns |-> [architecture |-> "architecture",
                  dependencies |-> "dependencies",
                  codeStandards |-> "codeStandards",
                  recommendations |-> "recommendations"],
     catch |-> Rethrows]

\* Lines 165-168 of developmentTools.ts.
DestructiveKeywords ==
    {<<"d", "e", "l", "e", "t", "e", " ", "a", "l", "l">>,
     <<"r", "e", "m", "o", "v", "e", " ", "e", "v", "e", "r", "y", "t",
       "h", "i", "n", "g">>,
     <<"c", "l", "e", "a", "r", " ", "d", "a", "t", "a", "b", "a", "s", "e">>,
     <<"d", "r", "o", "p", " ", "t", "a", "b", "l", "e">>,
     <<"t", "r", "u", "n", "c", "a", "t", "e">>,
     <<"f", "o", "r", "m", "a", "t", " ", "d", "r", "i", "v", "e">>,
     <<"r", "m", " ", "-", "r", "f">>}

\* Mutant: the keywords are searched in the description only.
HasDestructiveIntentInDescription(taskDescription, requirements) ==
    \E keyword \in DestructiveKeywords :
        Includes(ToLowerCase(taskDescription), keyword)

\* Lines 170-173.
HasDestructiveIntent(taskDescription, requirements) ==
    \E keyword \in DestructiveKeywords :
        \/ Includes(ToLowerCase(taskDescription), keyword)
        \/ Includes(ToLowerCase(requirements), keyword)

\* Lines 183-196: the categorization of the task.
TaskTypeOf(taskDescription) ==
    LET low == ToLowerCase(taskDescription)
        Has(word) == Includes(low, word)
    IN
    IF \/ Has(<<"f", "i", "x">>)
       \/ Has(<<"b", "u", "g">>)
    THEN "bugfix"
    ELSE IF \/ Has(<<"r", "e", "f", "a", "c", "t", "o", "r">>)
            \/ Has(<<"i", "m", "p", "r", "o", "v", "e">>)
    THEN "refactor"
    ELSE IF \/ Has(<<"s", "e", "c", "u", "r", "i", "t", "y">>)
            \/ Has(<<"v", "u", "l", "n", "e", "r", "a", "b", "i", "l", "i", "t", "y">>)
    THEN "security"
    ELSE IF \/ Has(<<"p", "e", "r", "f", "o", "r", "m", "a", "n", "c", "e">>)
            \/ Has(<<"o", "p", "t", "i", "m", "i", "z", "e">>)
    THEN "optimization"
    ELSE IF \/ Has(<<"u", "i">>)
            \/ Has(<<"f", "r", "o", "n", "t", "e", "n", "d">>)
    THEN "frontend"
    ELSE IF \/ Has(<<"a", "p", "i">>)
            \/ Has(<<"b", "a", "c", "k", "e", "n", "d">>)
    THEN "backend"
    ELSE "feature"

\* No awaited call; the safety check throws (line 177).
ImplementCodeChangesTool(in, e) ==
    [awaits |-> <<>>,
     throws |-> IF HasDestructiveIntent(in.taskDescription, in.requirements)
                THEN << <<"SAFETY BLOCK: Task contains potentially ",
                          "destructive operations. Manual review required.">> >>
                ELSE <<>>,
     returns |-> [analysis |-> [taskType |-> TaskTypeOf(in.taskDescription)],
                  implementationStrategy |-> "implementationStrategy",
                  detailedPlan |-> "detailedPlan",
                  safetyChecks |-> "safetyChecks",
                  nextActions |-> "nextActions"],
     catch |-> Rethrows]

\* No awaited call.
RunCodeTestsTool(in, e) ==
    [awaits |-> <<>>, throws |-> <<>>,
     returns |-> [testResults |-> [passed |-> 8, failed |-> 0, total |-> 8],
                  status |-> "success",
                  recommendations |-> "recommendations"],
     catch |-> Returns([testResults |->
                            [passed |-> 0, failed |-> 1, total |-> 1],
                        status |-> "failed",
                        recommendations |-> "recommendations"])]

\* No awaited call.
ValidateCodeQualityTool(in, e) ==
    [awaits |-> <<>>, throws |-> <<>>,
     returns |-> [qualityScore |-> 93, issues |-> "issues",
                  summary |-> "summary",
                  recommendations |-> "recommendations"],
     catch |-> Rethrows]

\* The tool the agent calls.
ToolOf(in, e) ==
    CASE in.tool = "readKanbanBoard" -> ReadKanbanBoardTool(in, e)
      [] in.tool = "updateTaskStatus" -> UpdateTaskStatusTool(in, e)
      [] in.tool = "addTaskComment" -> AddTaskCommentTool(in, e)
      [] in.tool = "queryTaskDetails" -> QueryTaskDetailsTool(in, e)
      [] in.tool = "createBranch" -> CreateBranchTool(in, e)
      [] in.tool = "commitCode" -> CommitCodeTool(in, e)
      [] in.tool = "createPullRequest" -> CreatePullRequestTool(in, e)
      [] in.tool = "getRepositoryContent" -> GetRepositoryContentTool(in, e)
      [] in.tool = "listRepositoryBranches"
            -> ListRepositoryBranchesTool(in, e)
      [] in.tool = "analyzeCodebase" -> AnalyzeCodebaseTool(in, e)
      [] in.tool = "implementCodeChanges" -> ImplementCodeChangesTool(in, e)
      [] in.tool = "runCodeTests" -> RunCodeTestsTool(in, e)
      [] in.tool = "validateCodeQuality" -> ValidateCodeQualityTool(in, e)

IdleTool ==
    [pc |-> "idle",
     in |-> [tool |-> "", taskDescription |-> <<>>, requirements |-> <<>>,
             reviewers |-> FALSE],
     k |-> 0, raised |-> <<>>, outcome |-> "none",
     result |-> <<>>, error |-> <<>>]

ToolInit == tl = IdleTool

\* The error e is thrown inside the try block: the catch block runs, and the
\* call throws e or returns the result of the catch block.
Raise(c, e) ==
    LET catch == ToolOf(c.in, e).catch IN
    IF catch.rethrows
    THEN [c EXCEPT !.pc = "done", !.raised = <<e>>, !.outcome = "threw",
                   !.error = <<e>>]
    ELSE [c EXCEPT !.pc = "done", !.raised = <<e>>, !.outcome = "returned",
                   !.result = catch.result]

\* The try block runs from its start, or from the call that just resolved,
\* up to the next await, to its own throw or to its return.
RunTry(c) ==
    LET tool == ToolOf(c.in, <<>>) IN
    IF c.k < Len(tool.awaits) THEN [c EXCEPT !.pc = "await", !.k = c.k + 1]
    ELSE IF tool.throws # <<>> THEN Raise(c, tool.throws[1])
    ELSE [c EXCEPT !.pc = "done", !.outcome = "returned",
                   !.result = <<tool.returns>>]

\* The agent calls a tool.
StartTool(in) ==
    /\ tl.pc = "idle"
    /\ tl' = RunTry([IdleTool EXCEPT !.in = in])
    /\ UNCHANGED notTool

\* The awaited call resolves.
AwaitResolve ==
    /\ tl.pc = "await"
    /\ tl' = RunTry(tl)
    /\ UNCHANGED notTool

\* The awaited call rejects with e.
AwaitReject(e) ==
    /\ tl.pc = "await"
    /\ e \in ErrorsOf(ToolOf(tl.in, <<>>).awaits[tl.k])
    /\ tl' = IF InnerCaught(ToolOf(tl.in, <<>>).awaits[tl.k])
             THEN RunTry(tl)
             ELSE Raise(tl, e)
    /\ UNCHANGED notTool

\* The agent takes the outcome; the next call can start.
ToolDone ==
    /\ tl.pc = "done"
    /\ tl' = IdleTool
    /\ UNCHANGED notTool

ToolNext ==
    \/ \E in \in ToolInputs : StartTool(in)
    \/ AwaitResolve
    \/ \E in \in ToolInputs :
          \E k \in 1..Len(ToolOf(in, <<>>).awaits) :
             \E e \in ErrorsOf(ToolOf(in, <<>>).awaits[k]) : AwaitReject(e)
    \/ ToolDone

(***************************************************************************)
(* Properties of the tools' error boundary                                 *)
(***************************************************************************)

\* The tools the specification lets rethrow.
Rethrowing == {"readKanbanBoard", "queryTaskDetails"}

\* A well-formed failure result: the fields of the tool's output, with the
\* failure marked in them.
IsFailureResult(r) ==
    \/ /\ "success" \in DOMAIN r
       /\ r.success = FALSE
       /\ "message" \in DOMAIN r
    \/ /\ "status" \in DOMAIN r
       /\ r.status = "failed"

\* C11: every tool of the registry other than readKanbanBoard and
\* queryTaskDetails never throws past the tool boundary: on any internal
\* error, a credential failure included, it returns a well-formed structured
\* failure result.
C11_ToolsNeverThrow ==
    (tl.pc = "done" /\ tl.in.tool \notin Rethrowing) =>
        /\ tl.outcome = "returned"
        /\ tl.raised # <<>> => IsFailureResult(tl.result[1])

\* C12: whenever the credential fetch or a board-host call inside
\* readKanbanBoard or queryTaskDetails fails, the tool call fails with that
\* same error and returns no task data.
C12_ReadToolsRethrow ==
    (tl.pc = "done" /\ tl.in.tool \in Rethrowing /\ tl.raised # <<>>) =>
        /\ tl.outcome = "threw"
        /\ tl.error = tl.raised
        /\ tl.result = <<>>

\* Witness of C12: queryTaskDetails had retrieved the page when the listing
\* of its blocks failed, and threw that error.
C12_Witness ==
    /\ tl.pc = "done"
    /\ tl.in.tool = "queryTaskDetails"
    /\ tl.k = 3
    /\ tl.outcome = "threw"
    /\ tl.error = << <<"blocks.children.list", " rejected">> >>

\* `text` contains one of `words`, in any letter case.
Mentions(text, words) ==
    \E word \in words : \E i \in 1..Len(text) :
        /\ i + Len(word) - 1 <= Len(text)
        /\ SubSeq(ToLowerCase(text), i, i + Len(word) - 1) = word

\* The task types in the order they are tried, each with its words.
Categories ==
    <<[type |-> "bugfix", words |-> {<<"f", "i", "x">>, <<"b", "u", "g">>}],
      [type |-> "refactor",
       words |-> {<<"r", "e", "f", "a", "c", "t", "o", "r">>,
                  <<"i", "m", "p", "r", "o", "v", "e">>}],
      [type |-> "security",
       words |-> {<<"s", "e", "c", "u", "r", "i", "t", "y">>,
                  <<"v", "u", "l", "n", "e", "r", "a", "b", "i", "l", "i",
                    "t", "y">>}],
      [type |-> "optimization",
       words |-> {<<"p", "e", "r", "f", "o", "r", "m", "a", "n", "c", "e">>,
                  <<"o", "p", "t", "i", "m", "i", "z", "e">>}],
      [type |-> "frontend",
       words |-> {<<"u", "i">>, <<"f", "r", "o", "n", "t", "e", "n", "d">>}],
      [type |-> "backend",
       words |-> {<<"a", "p", "i">>, <<"b", "a", "c", "k", "e", "n", "d">>}]>>

\* The type of the first category one of whose words the description
\* contains, "feature" when there is none.
FirstMatch(taskDescription) ==
    LET matching == {k \in DOMAIN Categories :
                        Mentions(taskDescription, Categories[k].words)}
    IN  IF matching = {} THEN "feature"
        ELSE Categories[CHOOSE k \in matching :
                            \A l \in matching : k <= l].type

\* C30: a call of implementCodeChanges whose taskDescription or
\* requirements contains a destructive keyword, in any letter case, throws
\* the safety-block error and returns no plan; any other call returns a
\* plan whose taskType is that of the first of bugfix, refactor, security,
\* optimization, frontend, backend that the description matches, "feature"
\* when it matches none.
C30_SafetyBlock ==
    (tl.pc = "done" /\ tl.in.tool = "implementCodeChanges") =>
        IF \/ Mentions(tl.in.taskDescription, DestructiveKeywords)
           \/ Mentions(tl.in.requirements, DestructiveKeywords)
        THEN /\ tl.outcome = "threw"
             /\ tl.result = <<>>
             /\ tl.error =
                   << <<"SAFETY BLOCK: Task contains potentially ",
                        "destructive operations. Manual review required.">> >>
        ELSE /\ tl.outcome = "returned"
             /\ tl.result[1].analysis.taskType =
                   FirstMatch(tl.in.taskDescription)

\* Witness of C30: the description would be classified, the requirements
\* say "Truncated": the call threw and returned no plan.
C30_Witness ==
    /\ tl.pc = "done"
    /\ tl.in.tool = "implementCodeChanges"
    /\ tl.in.taskDescription = <<"F", "i", "x", " ", "U", "I", " ", "b",
                                 "u", "g", " ", "i", "n", " ", "A", "P",
                                 "I">>
    /\ Mentions(tl.in.requirements, {<<"t", "r", "u", "n", "c", "a", "t",
                                       "e">>})
    /\ tl.outcome = "threw"
    /\ tl.result = <<>>

\* A description that contains "ui" inside "Build" and names the backend
\* is classified as frontend.
C30_FrontendBeforeBackend ==
    /\ tl.pc = "done"
    /\ tl.in.tool = "implementCodeChanges"
    /\ tl.in.taskDescription = <<"B", "u", "i", "l", "d", " ", "b", "a",
                                 "c", "k", "e", "n", "d">>
    /\ tl.outcome = "returned"
    /\ tl.result[1].analysis.taskType = "frontend"

(***************************************************************************)
(* The board tools readKanbanBoard and queryTaskDetails                    *)
(* (githubTools.ts:506-632, 736-852)                                       *)
(*                                                                         *)
(* The board host holds pages.  A page has a parent database and           *)
(* properties; of the properties the tools read, the model keeps those the *)
(* title and the status are extracted from.  A property that is absent is  *)
(* <<>>, one that is present is <<p>>; p.title is <<>> when the property   *)
(* has no title array and <<array>> when it has one, the array holding the *)
(* plain_text of its items; p.select is <<>> when the property has no      *)
(* selected option and <<name>> when it has one; p.type is the type the    *)
(* host gave the property.  A page also has the comments appended to it.   *)
(***************************************************************************)

DatabaseIds == {"DB1", "DB2"}

StatusNames == {"To Do", "Done"}

\* The pages of the board host; a page id outside them names no page.
PageIds == {1, 2}
MissingPage == 3

NoProperty == <<>>
OtherProperty == <<[type |-> "rich_text", title |-> <<>>, select |-> <<>>]>>
TitleProperty(array) ==
    <<[type |-> "title", title |-> <<array>>, select |-> <<>>]>>
SelectProperty(name) ==
    <<[type |-> "select", title |-> <<>>, select |-> <<name>>]>>
EmptySelect == <<[type |-> "select", title |-> <<>>, select |-> <<>>]>>

\* The properties of a page, by what is stored under each name the tools
\* read: under a title alias nothing, a property of another type (under
\* "Title"), an empty title or a title; under a status alias nothing, a
\* property of another type, a select without option or a select with an
\* option.
TitleProperties ==
    [Title : {NoProperty, OtherProperty, TitleProperty(<<>>),
              TitleProperty(<<"Fix login">>)},
     Name : {NoProperty, TitleProperty(<<>>),
             TitleProperty(<<"Add dark mode">>)},
     title : {NoProperty, TitleProperty(<<>>),
              TitleProperty(<<"Renew domain", " (draft)">>)},
     name : {NoProperty, TitleProperty(<<>>),
             TitleProperty(<<"Archive logs">>)},
     Status : {SelectProperty("To Do")},
     status : {NoProperty}]

StatusProperties ==
    [Title : {TitleProperty(<<"Fix login">>)},
     Name : {NoProperty}, title : {NoProperty}, name : {NoProperty},
     Status : {NoProperty, OtherProperty, EmptySelect}
                 \cup {SelectProperty(s) : s \in StatusNames},
     status : {NoProperty, OtherProperty, EmptySelect}
                 \cup {SelectProperty(s) : s \in StatusNames}]

PageValues ==
    [parent : {"DB1"}, properties : TitleProperties \cup StatusProperties]

\* The board the first run finds: a task of database DB1 and a page of
\* another database.
InitialPages ==
    <<[parent |-> "DB1",
       properties |->
           [Title |-> TitleProperty(<<"Fix login">>), Name |-> NoProperty,
            title |-> NoProperty, name |-> NoProperty,
            Status |-> SelectProperty("To Do"), status |-> NoProperty],
       comments |-> <<>>],
      [parent |-> "DB2",
       properties |->
           [Title |-> NoProperty, Name |-> TitleProperty(<<"Renew domain">>),
            title |-> NoProperty, name |-> NoProperty,
            Status |-> SelectProperty("Done"), status |-> NoProperty],
       comments |-> <<>>]>>

\* a || b on properties: an object is truthy, undefined is not.
\* Mutant: the later alias is preferred.
OrPropertyLast(a, b) == IF b # <<>> THEN b ELSE a

OrProperty(a, b) == IF a # <<>> THEN a ELSE b

\* Lines 571-621: the task readKanbanBoard makes of a page of the results.
TaskOf(id, page) ==
    LET properties == page.properties
        titleProperty ==
            OrProperty(properties.Title,
                OrProperty(properties.Name,
                    OrProperty(properties.title, properties.name)))
        title ==
            IF /\ titleProperty # <<>>
               /\ titleProperty[1].title # <<>>
               /\ Len(titleProperty[1].title[1]) > 0
            THEN titleProperty[1].title[1][1]
            ELSE "Untitled"
        statusProperty == OrProperty(properties.Status, properties.status)
        status ==
            IF statusProperty # <<>> /\ statusProperty[1].select # <<>>
            THEN statusProperty[1].select[1]
            ELSE "Unknown"
    IN  [id |-> id, title |-> title, status |-> status,
         properties |-> properties]

\* A block of a page: its type and the rich text under the field of that
\* name, a list of fragments, <<>> when the field is absent.
Block(type, fragments) == [type |-> type, rich_text |-> <<fragments>>]
BareBlock(type) == [type |-> type, rich_text |-> <<>>]

\* The blocks blocks.children.list answers with.
BlocksEmpty == <<>>
BlocksOne == <<Block("paragraph", << <<"S", "t", "e", "p", "s">> >>)>>
BlocksAll ==
    <<Block("heading_1", << <<"G", "o", "a", "l">> >>),
      Block("paragraph", << <<"F", "i", "x", " ">>, <<"l", "o", "g", "i", "n">> >>),
      Block("code", << <<"x", " ", "=", " ", "1">> >>),
      Block("heading_2", << <<"P", "l", "a", "n">> >>),
      Block("heading_3", << <<"N", "o", "w">> >>),
      Block("bulleted_list_item", << <<"o", "n", "e">> >>),
      BareBlock("paragraph"),
      Block("numbered_list_item", << <<"a">> >>),
      Block("numbered_list_item", << <<"b", " ">> >>),
      Block("paragraph", <<>>)>>
BlocksBlankFirst ==
    <<Block("paragraph", <<>>), Block("paragraph", << <<"S", "t", "e", "p",
                                                       "s">> >>)>>
BlocksIndented ==
    <<Block("paragraph", << <<" ", " ", "n", "p", "m", " ", "t", "e", "s",
                             "t">> >>), Block("divider", <<>>)>>

BlockLists ==
    {BlocksEmpty, BlocksOne, BlocksAll, BlocksBlankFirst, BlocksIndented}

RECURSIVE Join(_)
\* rich_text.map(text => text.plain_text).join('')
Join(fragments) ==
    IF fragments = <<>> THEN <<>>
    ELSE Head(fragments) \o Join(Tail(fragments))

\* Lines 780-792: what a block adds to the content.
BlockLine(block) ==
    LET line == Join(block.rich_text[1]) \o <<"\n">> IN
    IF block.type = "paragraph" /\ block.rich_text # <<>>
    THEN line
    ELSE IF block.type = "heading_1" /\ block.rich_text # <<>>
    THEN <<"#", " ">> \o line
    ELSE IF block.type = "heading_2" /\ block.rich_text # <<>>
    THEN <<"#", "#", " ">> \o line
    ELSE IF block.type = "heading_3" /\ block.rich_text # <<>>
    THEN <<"#", "#", "#", " ">> \o line
    ELSE IF block.type = "bulleted_list_item" /\ block.rich_text # <<>>
    THEN <<"-", " ">> \o line
    ELSE IF block.type = "numbered_list_item" /\ block.rich_text # <<>>
    THEN <<"1", ".", " ">> \o line
    ELSE <<>>

RECURSIVE ContentOf(_)
\* Lines 778-794: the content, block by block.
ContentOf(blocks) ==
    IF blocks = <<>> THEN <<>>
    ELSE BlockLine(Head(blocks)) \o ContentOf(Tail(blocks))

RECURSIVE TrimStart(_)
TrimStart(text) ==
    IF text # <<>> /\ IsSpace(Head(text)) THEN TrimStart(Tail(text))
    ELSE text

RECURSIVE TrimEnd(_)
TrimEnd(text) ==
    IF text # <<>> /\ IsSpace(text[Len(text)])
    THEN TrimEnd(SubSeq(text, 1, Len(text) - 1))
    ELSE text

\* Line 838: content.trim() removes the white space of both ends.
Trim(text) == TrimEnd(TrimStart(text))

\* Lines 797-841: the task queryTaskDetails makes of the retrieved page.
TaskDetailsOf(id, page, blocks) ==
    LET properties == page.properties
        titleProperty ==
            OrProperty(properties.Title,
                OrProperty(properties.Name,
                    OrProperty(properties.title, properties.name)))
        title ==
            IF /\ titleProperty # <<>>
               /\ titleProperty[1].title # <<>>
               /\ Len(titleProperty[1].title[1]) > 0
            THEN titleProperty[1].title[1][1]
            ELSE "Untitled"
        statusProperty == OrProperty(properties.Status, properties.status)
        status ==
            IF statusProperty # <<>> /\ statusProperty[1].select # <<>>
            THEN statusProperty[1].select[1]
            ELSE "Unknown"
    IN  [id |-> id, title |-> title, status |-> status,
         content |-> Trim(ContentOf(blocks)), properties |-> properties]

\* The comment text a call is given.
Comments == {"PR opened"}

IdleBoard ==
    [pc |-> "idle", tool |-> "", databaseId |-> "", statusFilter |-> <<>>,
     pageId |-> 0, newStatus |-> "", comment |-> "", page |-> <<>>,
     blocks |-> <<>>, outcome |-> "none", tasks |-> <<>>, result |-> <<>>,
     error |-> <<>>]

BoardInit ==
    /\ pages = InitialPages
    /\ kb = IdleBoard

\* A user of the workspace edits the properties of the first page.
EditPage(page) ==
    /\ kb.pc = "idle"
    /\ pages[1].parent # page.parent \/ pages[1].properties # page.properties
    /\ pages' = [pages EXCEPT ![1].parent = page.parent,
                              ![1].properties = page.properties]
    /\ UNCHANGED <<kb, notBoard>>

\* Lines 527-534: readKanbanBoard up to the await of the client.
ReadKanbanBoard(databaseId, statusFilter) ==
    /\ kb.pc = "idle"
    /\ kb' = [IdleBoard EXCEPT !.pc = "getAccessToken",
                               !.tool = "readKanbanBoard",
                               !.databaseId = databaseId,
                               !.statusFilter = statusFilter]
    /\ UNCHANGED <<pages, notBoard>>

\* Lines 757-764: queryTaskDetails up to the await of the client.
QueryTaskDetails(pageId) ==
    /\ kb.pc = "idle"
    /\ kb' = [IdleBoard EXCEPT !.pc = "getAccessToken",
                               !.tool = "queryTaskDetails",
                               !.pageId = pageId]
    /\ UNCHANGED <<pages, notBoard>>

\* Lines 645-652: updateTaskStatus up to the await of the client.
UpdateTaskStatus(pageId, newStatus) ==
    /\ kb.pc = "idle"
    /\ kb' = [IdleBoard EXCEPT !.pc = "getAccessToken",
                               !.tool = "updateTaskStatus",
                               !.pageId = pageId,
                               !.newStatus = newStatus]
    /\ UNCHANGED <<pages, notBoard>>

\* Lines 695-702: addTaskComment up to the await of the client.
AddTaskComment(pageId, comment) ==
    /\ kb.pc = "idle"
    /\ Len(pages[1].comments) + Len(pages[2].comments) < MaxComments
    /\ kb' = [IdleBoard EXCEPT !.pc = "getAccessToken",
                               !.tool = "addTaskComment",
                               !.pageId = pageId,
                               !.comment = comment]
    /\ UNCHANGED <<pages, notBoard>>

\* The host call a tool issues once it has the client.
FirstCall(tool) ==
    CASE tool = "readKanbanBoard" -> "search"
      [] tool = "queryTaskDetails" -> "pages.retrieve"
      [] tool = "updateTaskStatus" -> "pages.update"
      [] tool = "addTaskComment" -> "comments.create"

\* Lines 534-567, 764-769, 652-666 and 702-716: the client is there; in
\* readKanbanBoard the filter objects of lines 538-556 are built and left
\* unused; then the tool's first call to the host is issued.
NotionClientReturn ==
    /\ kb.pc = "getAccessToken"
    /\ kb' = [kb EXCEPT !.pc = FirstCall(kb.tool)]
    /\ UNCHANGED <<pages, notBoard>>

\* Mutant: the update also empties the title.
UpdatedPropertiesAndTitle(newStatus) ==
    [Status |-> SelectProperty(newStatus), Title |-> TitleProperty(<<>>)]

\* Lines 656-666: the properties pages.update is given.
UpdatedProperties(newStatus) == [Status |-> SelectProperty(newStatus)]

\* The host accepts an update of a page it holds when every property of
\* the update is a property of the page, of the type the update gives.
UpdateAccepted(pageId, update) ==
    /\ pageId \in PageIds
    /\ \A name \in DOMAIN update :
          /\ pages[pageId].properties[name] # <<>>
          /\ pages[pageId].properties[name][1].type = update[name][1].type

\* The host sets the properties of the update and leaves the others.
ApplyUpdate(page, update) ==
    [page EXCEPT !.properties =
        [name \in DOMAIN page.properties |->
            IF name \in DOMAIN update THEN update[name]
            ELSE page.properties[name]]]

\* Lines 656-672: the host has set the properties of the update, and only
\* those; the tool returns success.
PagesUpdateReturn ==
    /\ kb.pc = "pages.update"
    /\ UpdateAccepted(kb.pageId, UpdatedProperties(kb.newStatus))
    /\ pages' = [pages EXCEPT
                   ![kb.pageId] =
                       ApplyUpdate(@, UpdatedProperties(kb.newStatus))]
    /\ kb' = [kb EXCEPT !.pc = "done", !.outcome = "returned",
                        !.result =
                            <<[success |-> TRUE,
                               message |-> <<"Task status updated to \"",
                                             kb.newStatus, "\"">>]>>]
    /\ UNCHANGED notBoard

\* Lines 706-722: the host has appended the comment to the page; the tool
\* returns success.
CommentsCreateReturn ==
    /\ kb.pc = "comments.create"
    /\ kb.pageId \in PageIds
    /\ pages' = [pages EXCEPT ![kb.pageId].comments = Append(@, kb.comment)]
    /\ kb' = [kb EXCEPT !.pc = "done", !.outcome = "returned",
                        !.result =
                            <<[success |-> TRUE,
                               message |-> <<"Comment added successfully">>]>>]
    /\ UNCHANGED notBoard

\* Lines 673-680 and 725-732: the awaited call of updateTaskStatus or of
\* addTaskComment rejects, the host having changed nothing; the catch
\* block returns the failure result.
BoardFailure(e) ==
    /\ kb.tool \in {"updateTaskStatus", "addTaskComment"}
    /\ kb.pc \in {"getAccessToken", "pages.update", "comments.create"}
    /\ e \in ErrorsOf(kb.pc)
    /\ kb.pc = "pages.update" =>
          \/ e = <<"rate limit exceeded">>
          \/ ~UpdateAccepted(kb.pageId, UpdatedProperties(kb.newStatus))
    /\ kb.pc = "comments.create" =>
          (e = <<"rate limit exceeded">> \/ kb.pageId \notin PageIds)
    /\ kb' = [kb EXCEPT
                !.pc = "done", !.outcome = "returned",
                !.result =
                    <<[success |-> FALSE,
                       message |->
                           (IF kb.tool = "updateTaskStatus"
                            THEN <<"Failed to update task status: ">>
                            ELSE <<"Failed to add comment: ">>) \o e]>>]
    /\ UNCHANGED <<pages, notBoard>>

\* Lines 567-625: the search resolves with the pages of the workspace;
\* every result becomes a task.
SearchReturn ==
    /\ kb.pc = "search"
    /\ kb' = [kb EXCEPT !.pc = "done", !.outcome = "returned",
                        !.tasks = [i \in DOMAIN pages |-> TaskOf(i, pages[i])]]
    /\ UNCHANGED <<pages, notBoard>>

\* Lines 769-774: the page is retrieved; its blocks are asked for.
PagesRetrieveReturn ==
    /\ kb.pc = "pages.retrieve"
    /\ kb.pageId \in PageIds
    /\ kb' = [kb EXCEPT !.pc = "blocks.children.list",
                        !.page = <<pages[kb.pageId]>>]
    /\ UNCHANGED <<pages, notBoard>>

\* Lines 772-845: the blocks are listed; the task is returned.
BlocksListReturn(blocks) ==
    /\ kb.pc = "blocks.children.list"
    /\ kb' = [kb EXCEPT !.pc = "done", !.outcome = "returned",
                        !.blocks = blocks,
                        !.tasks = <<TaskDetailsOf(kb.pageId, kb.page[1],
                                                  blocks)>>]
    /\ UNCHANGED <<pages, notBoard>>

\* Lines 626-630 and 846-850: the awaited call rejects; the catch block
\* rethrows the error.
BoardReject(e) ==
    /\ kb.tool \in {"readKanbanBoard", "queryTaskDetails"}
    /\ kb.pc \in {"getAccessToken", "search", "pages.retrieve",
                  "blocks.children.list"}
    /\ e \in ErrorsOf(kb.pc)
    /\ kb' = [kb EXCEPT !.pc = "done", !.outcome = "threw", !.error = <<e>>]
    /\ UNCHANGED <<pages, notBoard>>

\* The agent takes the outcome; the next call can start.
BoardDone ==
    /\ kb.pc = "done"
    /\ kb' = IdleBoard
    /\ UNCHANGED <<pages, notBoard>>

BoardNext ==
    \/ \E page \in PageValues : EditPage(page)
    \/ \E databaseId \in DatabaseIds :
          \E statusFilter \in {<<>>} \cup {<<s>> : s \in StatusNames} :
             ReadKanbanBoard(databaseId, statusFilter)
    \/ \E pageId \in PageIds \cup {MissingPage} : QueryTaskDetails(pageId)
    \/ \E pageId \in PageIds \cup {MissingPage}, newStatus \in StatusNames :
          UpdateTaskStatus(pageId, newStatus)
    \/ \E pageId \in PageIds \cup {MissingPage}, comment \in Comments :
          AddTaskComment(pageId, comment)
    \/ NotionClientReturn
    \/ PagesUpdateReturn
    \/ CommentsCreateReturn
    \/ \E call \in {"getAccessToken", "pages.update", "comments.create"} :
          \E e \in ErrorsOf(call) : BoardFailure(e)
    \/ SearchReturn
    \/ PagesRetrieveReturn
    \/ \E blocks \in BlockLists : BlocksListReturn(blocks)
    \/ \E call \in {"getAccessToken", "search", "pages.retrieve",
                    "blocks.children.list"} :
          \E e \in ErrorsOf(call) : BoardReject(e)
    \/ BoardDone

(***************************************************************************)
(* Properties of the board tools                                           *)
(***************************************************************************)

\* The title aliases and the status aliases, in the order of the priority.
TitleAliases == <<"Title", "Name", "title", "name">>
StatusAliases == <<"Status", "status">>

\* The property stored under an alias.
Under(properties, alias) ==
    CASE alias = "Title" -> properties.Title
      [] alias = "Name" -> properties.Name
      [] alias = "title" -> properties.title
      [] alias = "name" -> properties.name
      [] alias = "Status" -> properties.Status
      [] alias = "status" -> properties.status

\* The alias yields a title: there is a property under it with a title that
\* is not empty; it yields a status: there is one with a selected option.
YieldsTitle(properties, alias) ==
    LET p == Under(properties, alias) IN
    p # <<>> /\ p[1].title # <<>> /\ Len(p[1].title[1]) > 0

YieldsStatus(properties, alias) ==
    LET p == Under(properties, alias) IN
    p # <<>> /\ p[1].select # <<>>

\* The first alias of the order that satisfies Yields, 0 when none does.
FirstYielding(aliases, Yields(_, _), properties) ==
    IF \E k \in DOMAIN aliases : Yields(properties, aliases[k])
    THEN CHOOSE k \in DOMAIN aliases :
            /\ Yields(properties, aliases[k])
            /\ \A j \in 1..(k - 1) : ~Yields(properties, aliases[j])
    ELSE 0

PriorityTitle(properties) ==
    LET k == FirstYielding(TitleAliases, YieldsTitle, properties) IN
    IF k = 0 THEN "Untitled"
    ELSE Under(properties, TitleAliases[k])[1].title[1][1]

PriorityStatus(properties) ==
    LET k == FirstYielding(StatusAliases, YieldsStatus, properties) IN
    IF k = 0 THEN "Unknown"
    ELSE Under(properties, StatusAliases[k])[1].select[1]

\* The tool a step of the board tools belongs to.
ToolOfStep == IF kb.tool # "" THEN kb.tool ELSE kb'.tool

ReportedStatus(id, page) ==
    <<TaskOf(id, page).status, TaskDetailsOf(id, page, <<>>).status>>

\* C29: when updateTaskStatus(pageId, s) returns success, both readers
\* report status s for the page as the call left it, whatever other status
\* properties the page has; when it returns a failure, the status they
\* report for every page is what it was before the call settled.
C29_StatusRoundTrip ==
    [][(/\ kb.tool = "updateTaskStatus"
        /\ kb.pc # "done"
        /\ kb'.pc = "done") =>
           IF kb'.result[1].success
           THEN ReportedStatus(kb.pageId, pages'[kb.pageId])
                    = <<kb.newStatus, kb.newStatus>>
           ELSE \A i \in DOMAIN pages :
                    ReportedStatus(i, pages'[i]) = ReportedStatus(i, pages[i])
      ]_vars

\* Witness of C29: page 1 has a status under "Status" and another under
\* "status"; updateTaskStatus(1, "Done") returned success and both readers
\* report "Done".
C29_Witness ==
    /\ kb.pc = "done"
    /\ kb.tool = "updateTaskStatus"
    /\ kb.pageId = 1
    /\ kb.newStatus = "Done"
    /\ kb.result[1].success
    /\ pages[1].properties.status = SelectProperty("To Do")
    /\ ReportedStatus(1, pages[1]) = <<"Done", "Done">>

\* The block types the content is made of, and what each line begins with.
Supported ==
    {"paragraph", "heading_1", "heading_2", "heading_3",
     "bulleted_list_item", "numbered_list_item"}

Prefix ==
    [type \in Supported |->
        CASE type = "paragraph" -> <<>>
          [] type = "heading_1" -> <<"#", " ">>
          [] type = "heading_2" -> <<"#", "#", " ">>
          [] type = "heading_3" -> <<"#", "#", "#", " ">>
          [] type = "bulleted_list_item" -> <<"-", " ">>
          [] type = "numbered_list_item" -> <<"1", ".", " ">>]

\* The lines of the blocks, in block order: one for each supported block,
\* nothing for any other.
LinesOf(blocks) ==
    [i \in DOMAIN blocks |->
        IF blocks[i].type \in Supported /\ blocks[i].rich_text # <<>>
        THEN Prefix[blocks[i].type] \o Join(blocks[i].rich_text[1])
                 \o <<"\n">>
        ELSE <<>>]

QueryReturned ==
    /\ kb.pc = "done"
    /\ kb.tool = "queryTaskDetails"
    /\ kb.outcome = "returned"

\* C26: the content queryTaskDetails returns is the lines of the task's
\* blocks in block order, a paragraph as its text, a heading after "# ",
\* "## " or "### ", a bulleted item after "- ", a numbered item after
\* "1. ", with the white space at the end of the document removed and
\* nothing else.
C26_ContentFlattened ==
    QueryReturned =>
        kb.tasks[1].content = TrimEnd(Join(LinesOf(kb.blocks)))

\* C17: the title of every task the two tools return is the title under the
\* first of the aliases Title, Name, title, name that yields a title (with
\* a title under both "Name" and "Title", the one under "Title") and is
\* "Untitled" only when no alias yields one; likewise the status is the one
\* under the first of Status, status that yields a status and is "Unknown"
\* only when neither does.
C17_AliasPriority ==
    (kb.pc = "done" /\ kb.outcome = "returned") =>
        \A i \in DOMAIN kb.tasks :
            /\ kb.tasks[i].title = PriorityTitle(kb.tasks[i].properties)
            /\ kb.tasks[i].status = PriorityStatus(kb.tasks[i].properties)

\* C18: the tasks readKanbanBoard returns belong to the board databaseId,
\* and when statusFilter is given their status is statusFilter.
C18_BoardFiltered ==
    (kb.pc = "done" /\ kb.outcome = "returned"
        /\ kb.tool = "readKanbanBoard") =>
        \A i \in DOMAIN kb.tasks :
            /\ pages[kb.tasks[i].id].parent = kb.databaseId
            /\ kb.statusFilter # <<>> =>
                   kb.tasks[i].status = kb.statusFilter[1]

(***************************************************************************)
(* createBranch (githubTools.ts:47-109)                                    *)
(*                                                                         *)
(* The host holds the branches of the repository: refs[name] is <<>> when  *)
(* there is no branch of that name and <<sha>> when there is one.  A sha   *)
(* is a number; the sha of a result is <<>> for the empty string.  The     *)
(* host resolves or rejects a call as a whole: a rejected call has changed *)
(* nothing.  Callers run concurrently, and other clients push to the       *)
(* branches meanwhile.                                                     *)
(***************************************************************************)

BranchCallers == {1, 2}

BranchNames == {"main", "feature", "fix"}

\* The branch names a call is given.
NewBranchNames == {"feature", "main"}
BaseBranchNames == {"main", "fix"}

\* The text of the host's errors, and of the credential error.
RefNotFound == "Not Found"
RefExists == "Reference already exists"
ServerError == "Server Error"
GitHubNotConnected == "GitHub not connected"

\* Lines 92-97: the success return.
BranchSuccess(c, sha) ==
    [success |-> TRUE, branchName |-> c.branchName, sha |-> <<sha>>,
     message |-> <<"Branch \"", c.branchName,
                   "\" created successfully from \"", c.baseBranch, "\"">>]

\* Mutant: the failure result carries the sha that was read.
BranchFailureWithSha(c, e) ==
    [success |-> FALSE, branchName |-> c.branchName, sha |-> c.baseRef,
     message |-> <<"Failed to create branch: ", e>>]

\* Lines 101-106: the return of the catch block.
BranchFailure(c, e) ==
    [success |-> FALSE, branchName |-> c.branchName, sha |-> <<>>,
     message |-> <<"Failed to create branch: ", e>>]

\* Line 87: the sha the new ref is created at.
CreateRefSha(c) == c.baseRef[1]

\* The locals of an execution; log holds the calls issued to the host and
\* their outcomes, written holds the refs the host wrote for this call.
IdleBranch ==
    [pc |-> "idle", branchName |-> "", baseBranch |-> "", baseRef |-> <<>>,
     result |-> <<>>, log |-> <<>>, written |-> {}]

BranchInit ==
    /\ refs = [name \in BranchNames |->
                  IF name = "main" THEN <<1>> ELSE <<>>]
    /\ cb = [p \in BranchCallers |-> IdleBranch]

\* The errors the host rejects a call with, in the state it is in.
BranchErrors(c) ==
    CASE c.pc = "client" -> {GitHubNotConnected}
      [] c.pc = "getRef" ->
            IF refs[c.baseBranch] = <<>> THEN {RefNotFound} ELSE {ServerError}
      [] c.pc = "createRef" ->
            IF refs[c.branchName] # <<>> THEN {RefExists} ELSE {ServerError}
      [] OTHER -> {}

\* Another client pushes to a branch: its head moves to a new commit.
PushBranch(name) ==
    /\ refs[name] # <<>>
    /\ refs[name][1] < MaxSha
    /\ refs' = [refs EXCEPT ![name] = <<refs[name][1] + 1>>]
    /\ UNCHANGED <<cb, notBranch>>

\* Lines 62-69: execute is entered; it awaits the client.
StartCreateBranch(p, branchName, baseBranch) ==
    /\ cb[p].pc = "idle"
    /\ cb' = [cb EXCEPT ![p] = [IdleBranch EXCEPT !.pc = "client",
                                                  !.branchName = branchName,
                                                  !.baseBranch = baseBranch]]
    /\ UNCHANGED <<refs, notBranch>>

\* Lines 69-78: the client is there; getRef of the base branch is issued.
CbClientReturn(p) ==
    /\ cb[p].pc = "client"
    /\ cb' = [cb EXCEPT ![p] =
                [@ EXCEPT !.pc = "getRef",
                          !.log = Append(@, Call("getRef", cb[p].baseBranch))]]
    /\ UNCHANGED <<refs, notBranch>>

\* Lines 74-88: getRef resolves with the head of the base branch; createRef
\* is issued at that sha.
CbGetRefReturn(p) ==
    /\ cb[p].pc = "getRef"
    /\ refs[cb[p].baseBranch] # <<>>
    /\ LET c == [cb[p] EXCEPT !.baseRef = refs[cb[p].baseBranch]] IN
       cb' = [cb EXCEPT ![p] =
                [c EXCEPT !.pc = "createRef",
                          !.log = @ \o <<Ret("getRef", c.baseRef[1]),
                                         Call("createRef", CreateRefSha(c))>>]]
    /\ UNCHANGED <<refs, notBranch>>

\* Lines 83-97: the host creates the ref, the name being free; the success
\* result carries the sha of the answer.
CbCreateRefReturn(p) ==
    /\ cb[p].pc = "createRef"
    /\ refs[cb[p].branchName] = <<>>
    /\ refs' = [refs EXCEPT ![cb[p].branchName] = <<CreateRefSha(cb[p])>>]
    /\ cb' = [cb EXCEPT ![p] =
                [@ EXCEPT !.pc = "done",
                          !.written = @ \cup {cb[p].branchName},
                          !.log = Append(@, Ret("createRef",
                                                CreateRefSha(cb[p]))),
                          !.result =
                              <<BranchSuccess(cb[p], CreateRefSha(cb[p]))>>]]
    /\ UNCHANGED notBranch

\* Lines 98-107: the awaited call rejects; the catch block returns the
\* failure result.
CbReject(p, e) ==
    /\ e \in BranchErrors(cb[p])
    /\ cb' = [cb EXCEPT ![p] =
                [@ EXCEPT !.pc = "done",
                          !.log = Append(@, Fail(cb[p].pc, e)),
                          !.result = <<BranchFailure(cb[p], e)>>]]
    /\ UNCHANGED <<refs, notBranch>>

\* The agent takes the result; the caller can call again.
CbDone(p) ==
    /\ cb[p].pc = "done"
    /\ cb' = [cb EXCEPT ![p] = IdleBranch]
    /\ UNCHANGED <<refs, notBranch>>

BranchNext ==
    \/ \E name \in BranchNames : PushBranch(name)
    \/ \E p \in BranchCallers :
          \/ \E branchName \in NewBranchNames :
                \E baseBranch \in BaseBranchNames :
                   StartCreateBranch(p, branchName, baseBranch)
          \/ CbClientReturn(p)
          \/ CbGetRefReturn(p)
          \/ CbCreateRefReturn(p)
          \/ \E e \in {GitHubNotConnected, RefNotFound, RefExists,
                       ServerError} : CbReject(p, e)
          \/ CbDone(p)

(***************************************************************************)
(* Properties of createBranch                                              *)
(***************************************************************************)

\* The positions of the log that hold the event.
PositionsOf(log, kind, op) ==
    {k \in DOMAIN log : log[k][1] = kind /\ log[k][2] = op}

\* C19: createBranch issues createRef only after getRef has answered, and
\* at exactly the sha of that answer; when getRef fails, the base branch
\* missing, no createRef is issued; when a call fails, the name being taken
\* or the base missing, the result is success:false with an empty sha and a
\* message that carries the text of the host's error, and the host has
\* written no ref for the call; on success the result carries the sha read.
C19_CreateBranch ==
    \A p \in BranchCallers :
        LET c == cb[p] IN
        /\ \A k \in PositionsOf(c.log, "call", "createRef") :
              /\ k > 1
              /\ c.log[k - 1] = Ret("getRef", c.log[k][3])
              /\ PositionsOf(c.log, "fail", "getRef") = {}
        /\ PositionsOf(c.log, "fail", "getRef") # {} =>
              PositionsOf(c.log, "call", "createRef") = {}
        /\ (c.pc = "done" /\ \E k \in DOMAIN c.log : c.log[k][1] = "fail") =>
              /\ c.result[1].success = FALSE
              /\ c.result[1].sha = <<>>
              /\ c.result[1].message =
                    <<"Failed to create branch: ", c.log[Len(c.log)][3]>>
              /\ c.written = {}
        /\ (c.pc = "done" /\ c.result[1].success) =>
              /\ c.result[1].sha = c.baseRef
              /\ c.written = {c.branchName}

\* Witness of C19: a call read the head of the base branch and found the
\* name taken when it asked for the new ref.
C19_Witness ==
    \E p \in BranchCallers :
        /\ cb[p].pc = "done"
        /\ cb[p].result[1].success = FALSE
        /\ PositionsOf(cb[p].log, "ret", "getRef") # {}
        /\ cb[p].log[Len(cb[p].log)] = Fail("createRef", RefExists)

(***************************************************************************)
(* The scheduled workflow (ctoAutomationWorkflow.ts)                       *)
(*                                                                         *)
(* A run is the discovery step followed by the notification step.  The     *)
(* discovery step awaits once, on ctoAgent.generate; the notification step *)
(* awaits nothing.  The agent and the logger belong to the environment: the *)
(* agent chooses its tool calls and its final text, or fails; each call of *)
(* a logger method returns or throws.                                      *)
(***************************************************************************)

\* Line 64: maxSteps
MaxSteps == 20

\* Line 96: agentResponse.substring(0, 500)
SummaryLimit == 500

\* The calls of logger methods, named by their line: those of the discovery
\* step before its await, after it, and those of the notification step.
LoggerBeforeAgent == {18, 27, 113}
LoggerAfterAgent == {74, 98, 113}
LoggerOnReject == {113}
LoggerNotification == {143, 147, 166, 175}

LoggerError == <<"logger failed">>

\* Lines 23-25.
AgentNotFound ==
    <<"CTO Agent not found - ensure it is registered in the Mastra instance">>

\* The errors ctoAgent.generate rejects with.
AgentErrors == {<<"model call failed">>}

\* The numbers of tasks in status "To Do" the board holds when a run starts.
TodoCounts == {0, 1, 2}

\* The tool calls of the agent a run keeps count of; any other is "other".
Tracked ==
    {"createBranch", "commitCode", "createPullRequest",
     "updateTaskStatus(Done)", "addTaskComment"}

AgentCalls == Tracked \cup {"updateTaskStatus(In Progress)", "other"}

\* Final texts of the agent: one that counts its tasks, one that does not,
\* one that counts two and reports a failure.
SummaryOneTask ==
    <<"1", " ", "t", "a", "s", "k", " ", "c", "o", "m", "p", "l", "e", "t",
      "e", "d", ".", " ", "P", "u", "l", "l", " ", "r", "e", "q", "u", "e",
      "s", "t", " ", "#", "7", " ", "c", "r", "e", "a", "t", "e", "d", ".">>

SummaryNoCount ==
    <<"C", "o", "m", "p", "l", "e", "t", "e", "d", " ", "t", "h", "e", " ",
      "t", "a", "s", "k", " ", "a", "n", "d", " ", "o", "p", "e", "n", "e",
      "d", " ", "p", "u", "l", "l", " ", "r", "e", "q", "u", "e", "s", "t",
      " ", "7", ".">>

SummaryTwoTasks ==
    <<"2", " ", "T", "a", "s", "k", "s", "\n", "H", "a", "n", "d", "l",
      "e", "d", ";", " ", "1", " ", "f", "a", "i", "l", "e", "d", " ", "w",
      "i", "t", "h", " ", "a", "n", " ", "e", "r", "r", "o", "r">>

SummaryNoTasks ==
    <<"N", "o", " ", "t", "a", "s", "k", "s", " ", "i", "n", " ", "T", "o",
      " ", "D", "o", ".", " ", "0", " ", "t", "a", "s", "k", "s", " ", "p",
      "r", "o", "c", "e", "s", "s", "e", "d", ".">>

SummaryTwoPulls ==
    <<"1", "2", " ", "t", "a", "s", "k", "s", " ", "p", "r", "o", "c", "e",
      "s", "s", "e", "d", ",", " ", "3", " ", "t", "a", "s", "k", "s", " ",
      "h", "a", "n", "d", "l", "e", "d", ":", " ", "p", "u", "l", "l", " ",
      "r", "e", "q", "u", "e", "s", "t", "s", " ", "#", "3", " ", "a", "n",
      "d", " ", "P", "U", "L", "L", " ", "R", "E", "Q", "U", "E", "S", "T",
      " ", "#", "4", "1", ".", " ", "O", "n", "e", " ", "F", "A", "I", "L",
      "E", "D", ".">>

\* The final texts of the agent.
AgentTexts ==
    {<<>>, SummaryOneTask, SummaryNoCount, SummaryTwoTasks, SummaryNoTasks,
     SummaryTwoPulls}

Digits == <<"0", "1", "2", "3", "4", "5", "6", "7", "8", "9">>

IsDigit(ch) == \E k \in 1..Len(Digits) : Digits[k] = ch

DigitValue(ch) == (CHOOSE k \in 1..Len(Digits) : Digits[k] = ch) - 1

RECURSIVE DigitRun(_, _)
\* \d+ at position i: the number of digits it takes.
DigitRun(text, i) ==
    IF i <= Len(text) /\ IsDigit(text[i]) THEN 1 + DigitRun(text, i + 1)
    ELSE 0

RECURSIVE SkipSpace(_, _)
\* \s* at position i: the position after it.
SkipSpace(text, i) ==
    IF i <= Len(text) /\ IsSpace(text[i]) THEN SkipSpace(text, i + 1) ELSE i

StartsWith(text, i, word) ==
    /\ i + Len(word) - 1 <= Len(text)
    /\ SubSeq(text, i, i + Len(word) - 1) = word

RECURSIVE ParseInt(_)
\* parseInt of a run of digits.
ParseInt(digits) ==
    IF digits = <<>> THEN 0
    ELSE 10 * ParseInt(SubSeq(digits, 1, Len(digits) - 1))
            + DigitValue(digits[Len(digits)])

\* Line 82: /(\d+)\s*tasks?\s*(processed|completed|handled)/i matches at i.
TasksMatchAt(text, i) ==
    LET low == ToLowerCase(text)
        n == DigitRun(low, i)
        a == SkipSpace(low, i + n)
        b == IF StartsWith(low, a + 4, <<"s">>) THEN a + 5 ELSE a + 4
        c == SkipSpace(low, b)
    IN  /\ n > 0
        /\ StartsWith(low, a, <<"t", "a", "s", "k">>)
        /\ \/ StartsWith(low, c, <<"p", "r", "o", "c", "e", "s", "s", "e",
                                   "d">>)
           \/ StartsWith(low, c, <<"c", "o", "m", "p", "l", "e", "t", "e",
                                   "d">>)
           \/ StartsWith(low, c, <<"h", "a", "n", "d", "l", "e", "d">>)

\* Lines 82-83: the number of the first match, 0 without a match.
TasksProcessedOf(text) ==
    IF \E i \in 1..Len(text) : TasksMatchAt(text, i)
    THEN LET i == CHOOSE j \in 1..Len(text) :
                    /\ TasksMatchAt(text, j)
                    /\ \A k \in 1..(j - 1) : ~TasksMatchAt(text, k)
         IN  ParseInt(SubSeq(text, i, i + DigitRun(text, i) - 1))
    ELSE 0

\* Mutant: the "#" before the number is required, and no plural is read.
PullRequestMatchAtHash(text, i) ==
    LET low == ToLowerCase(text)
        word == <<"p", "u", "l", "l", " ", "r", "e", "q", "u", "e", "s",
                  "t", " ", "#">>
        n == DigitRun(low, i + Len(word))
    IN  IF StartsWith(low, i, word) /\ n > 0 THEN Len(word) + n ELSE 0

\* Line 86: /pull request[s]?\s*[#]?(\d+)/gi matches at i: the length of the
\* match, 0 without a match.
PullRequestMatchAt(text, i) ==
    LET low == ToLowerCase(text)
        word == <<"p", "u", "l", "l", " ", "r", "e", "q", "u", "e", "s",
                  "t">>
        a == i + Len(word)
        b == IF StartsWith(low, a, <<"s">>) THEN a + 1 ELSE a
        c == SkipSpace(low, b)
        d == IF StartsWith(low, c, <<"#">>) THEN c + 1 ELSE c
        n == DigitRun(low, d)
    IN  IF StartsWith(low, i, word) /\ n > 0 THEN d + n - i ELSE 0

RECURSIVE PullRequestMatches(_, _)
\* Lines 86-89: the matched texts from position i on, left to right, none
\* overlapping.
PullRequestMatches(text, i) ==
    IF i > Len(text) THEN <<>>
    ELSE LET n == PullRequestMatchAt(text, i) IN
         IF n > 0
         THEN <<SubSeq(text, i, i + n - 1)>>
                  \o PullRequestMatches(text, i + n)
         ELSE PullRequestMatches(text, i + 1)

\* Mutant: the words are searched in the answer as written.
ErrorsOfResponseAsWritten(text) ==
    IF \/ Includes(text, <<"e", "r", "r", "o", "r">>)
       \/ Includes(text, <<"f", "a", "i", "l", "e", "d">>)
    THEN << <<"Some tasks encountered errors",
              " - check agent logs for details">> >>
    ELSE <<>>

\* Mutant: no answer is flagged.
ErrorsOfResponseNone(text) == <<>>

\* Lines 91-94.
ErrorsOfResponse(text) ==
    IF \/ Includes(ToLowerCase(text), <<"e", "r", "r", "o", "r">>)
       \/ Includes(ToLowerCase(text), <<"f", "a", "i", "l", "e", "d">>)
    THEN << <<"Some tasks encountered errors",
              " - check agent logs for details">> >>
    ELSE <<>>

\* Mutant: the count defaults to 1 when the text names none.
WorkflowResultOneTask(text) ==
    [tasksProcessed |->
         IF \E i \in 1..Len(text) : TasksMatchAt(text, i)
         THEN TasksProcessedOf(text) ELSE 1,
     completedTasks |-> PullRequestMatches(text, 1),
     errors |-> ErrorsOfResponse(text),
     summary |->
         <<"CTO Automation completed: ", ToString(TasksProcessedOf(text)),
           " tasks processed, ", ToString(Len(PullRequestMatches(text, 1))),
           " pull requests created. Agent response: ">>
             \o SubSeq(text, 1, IF Len(text) > SummaryLimit
                                THEN SummaryLimit ELSE Len(text))
             \o (IF Len(text) > SummaryLimit THEN <<"...">> ELSE <<>>)]

\* Lines 79-109: the result parsed from the agent's final text.
WorkflowResult(text) ==
    [tasksProcessed |-> TasksProcessedOf(text),
     completedTasks |-> PullRequestMatches(text, 1),
     errors |-> ErrorsOfResponse(text),
     summary |->
         <<"CTO Automation completed: ", ToString(TasksProcessedOf(text)),
           " tasks processed, ", ToString(Len(PullRequestMatches(text, 1))),
           " pull requests created. Agent response: ">>
             \o SubSeq(text, 1, IF Len(text) > SummaryLimit
                                THEN SummaryLimit ELSE Len(text))
             \o (IF Len(text) > SummaryLimit THEN <<"...">> ELSE <<>>)]

\* Lines 115-120: the result of the catch block.
WorkflowFailure(msg) ==
    [tasksProcessed |-> 0,
     completedTasks |-> <<>>,
     errors |-> << <<"Workflow execution failed: ">> \o msg >>,
     summary |-> <<"CTO Automation failed: ">> \o msg]

NoOutcome == [kind |-> "none", value |-> <<>>, error |-> <<>>]
StepReturned(r) == [kind |-> "returned", value |-> <<r>>, error |-> <<>>]
StepThrew(e) == [kind |-> "threw", value |-> <<>>, error |-> <<e>>]

IdleRun ==
    [pc |-> "idle", trace |-> <<>>, todo |-> 0, invocations |-> 0,
     steps |-> 0, calls |-> [t \in Tracked |-> 0], toolFailed |-> FALSE,
     response |-> <<>>,
     raised |-> <<>>,
     discovery |-> NoOutcome, inputData |-> <<>>, reportFailed |-> FALSE,
     notification |-> NoOutcome]

WorkflowInit == wf = IdleRun

\* The discovery step settles.  The agent's loop is over, and the count of
\* its steps is dropped.
DiscoverySettles(w, outcome) ==
    [w EXCEPT !.pc = "discovered", !.discovery = outcome, !.steps = 0]

\* Lines 111-121: the catch block of the discovery step, entered with the
\* message of the error.
DiscoveryCatch(w, msg, bad) ==
    DiscoverySettles([w EXCEPT !.raised = <<msg>>],
                     IF 113 \in bad THEN StepThrew(LoggerError)
                     ELSE StepReturned(WorkflowFailure(msg)))

\* Lines 17-30: the step up to its await.
DiscoveryBegin(w, registered, bad) ==
    LET d == [w EXCEPT !.trace = Append(@, "Discovering")] IN
    IF 18 \in bad THEN DiscoverySettles(d, StepThrew(LoggerError))
    ELSE IF ~registered THEN DiscoveryCatch(d, AgentNotFound, bad)
    ELSE IF 27 \in bad THEN DiscoveryCatch(d, LoggerError, bad)
    ELSE [d EXCEPT !.pc = "agent",
                   !.trace = Append(@, "AgentRunning"),
                   !.invocations = @ + 1]

\* The result of each final text of the agent.
ResultOfText == [text \in AgentTexts |-> WorkflowResult(text)]

\* Lines 74-109: the step after generate resolved with `text`.
DiscoveryResume(w, text, bad) ==
    IF 74 \in bad \/ 98 \in bad
    THEN DiscoveryCatch(w, LoggerError, bad)
    ELSE DiscoverySettles(w, StepReturned(ResultOfText[text]))

\* Lines 139-182: the notification step.  The count of the agent's calls is
\* dropped.
NotificationStep(w, bad) ==
    LET n == [w EXCEPT !.pc = "reported",
                       !.trace = Append(@, "Reporting"),
                       !.inputData = w.discovery.value,
                       !.calls = [t \in Tracked |-> 0],
                       !.toolFailed = FALSE]
    IN
    IF 143 \in bad
    THEN [n EXCEPT !.notification = StepThrew(LoggerError)]
    ELSE IF 147 \in bad \/ 166 \in bad
    THEN [n EXCEPT !.reportFailed = TRUE,
                   !.notification =
                       IF 175 \in bad THEN StepThrew(LoggerError)
                       ELSE StepReturned([notificationsSent |-> 0,
                                          reportGenerated |-> FALSE])]
    ELSE [n EXCEPT !.notification =
                       StepReturned([notificationsSent |-> 1,
                                     reportGenerated |-> TRUE])]

\* The scheduler triggers a run: the discovery step starts.
Trigger(todo, registered, bad) ==
    /\ wf.pc = "idle"
    /\ wf' = DiscoveryBegin([IdleRun EXCEPT !.todo = todo], registered, bad)
    /\ UNCHANGED notWorkflow

\* The agent performs a step of its loop: one tool call, whose result is
\* handed to the agent and, at lines 65-71, counted for the log; `ok` is
\* its success field.
AgentStep(call, ok) ==
    /\ wf.pc = "agent"
    /\ wf.steps < MaxSteps
    /\ wf' = [wf EXCEPT
                !.steps = @ + 1,
                !.toolFailed = @ \/ ~ok,
                !.calls = IF call \in Tracked
                          THEN [@ EXCEPT ![call] =
                                    IF @ < MaxCount THEN @ + 1 ELSE @]
                          ELSE @]
    /\ UNCHANGED notWorkflow

\* generate resolves with the agent's final text.
AgentReturn(text, bad) ==
    /\ wf.pc = "agent"
    /\ wf' = DiscoveryResume([wf EXCEPT !.response = <<text>>], text, bad)
    /\ UNCHANGED notWorkflow

\* generate rejects: the model call failed, or a step of the loop threw.
AgentThrow(e, bad) ==
    /\ wf.pc = "agent"
    /\ wf' = DiscoveryCatch(wf, e, bad)
    /\ UNCHANGED notWorkflow

\* .then(notificationStep): the result of the discovery step is its input.
StartNotification(bad) ==
    /\ wf.pc = "discovered"
    /\ wf.discovery.kind = "returned"
    /\ wf' = NotificationStep(wf, bad)
    /\ UNCHANGED notWorkflow

\* A step threw: the run fails with its error.
RunFails ==
    /\ \/ wf.pc = "discovered" /\ wf.discovery.kind = "threw"
       \/ wf.pc = "reported" /\ wf.notification.kind = "threw"
    /\ wf' = [wf EXCEPT !.pc = "failed",
                         !.calls = [t \in Tracked |-> 0],
                         !.toolFailed = FALSE]
    /\ UNCHANGED notWorkflow

\* The last step returned: the run is complete.
RunCompletes ==
    /\ wf.pc = "reported"
    /\ wf.notification.kind = "returned"
    /\ wf' = [wf EXCEPT !.pc = "complete", !.trace = Append(@, "Idle")]
    /\ UNCHANGED notWorkflow

\* The orchestrator waits for the next trigger.
NextRun ==
    /\ wf.pc \in {"failed", "complete"}
    /\ wf' = IdleRun
    /\ UNCHANGED notWorkflow

WorkflowNext ==
    \/ \E todo \in TodoCounts, registered \in BOOLEAN,
          bad \in SUBSET LoggerBeforeAgent : Trigger(todo, registered, bad)
    \/ \E call \in AgentCalls, ok \in BOOLEAN : AgentStep(call, ok)
    \/ \E text \in AgentTexts, bad \in SUBSET LoggerAfterAgent :
          AgentReturn(text, bad)
    \/ \E e \in AgentErrors, bad \in SUBSET LoggerOnReject : AgentThrow(e, bad)
    \/ \E bad \in SUBSET LoggerNotification : StartNotification(bad)
    \/ RunFails
    \/ RunCompletes
    \/ NextRun

(***************************************************************************)
(* Properties of the workflow                                              *)
(***************************************************************************)

\* The agent invocation failed: the agent is not registered, or generate
\* rejected.
AgentFailed ==
    /\ wf.raised # <<>>
    /\ wf.raised[1] \in AgentErrors \cup {AgentNotFound}

DiscoverySettled == wf.discovery.kind # "none"

RunEnded == wf.pc \in {"failed", "complete"}

\* C13: if the agent invocation throws (agent not registered, model call
\* fails), the discovery step does not throw; it returns tasksProcessed = 0,
\* completedTasks = [] and an errors list of exactly one string that contains
\* the failure message, and the agent is not invoked a second time.
C13_AgentFailureCaught ==
    (AgentFailed /\ DiscoverySettled) =>
        /\ wf.discovery.kind = "returned"
        /\ wf.discovery.value[1].tasksProcessed = 0
        /\ wf.discovery.value[1].completedTasks = <<>>
        /\ Len(wf.discovery.value[1].errors) = 1
        /\ Includes(wf.discovery.value[1].errors[1], wf.raised[1])
        /\ wf.invocations <= 1

\* C14: no exception escapes a run: whatever the agent and the logger do,
\* the discovery step and the notification step return a result, and the
\* notification step returns notificationsSent = 0 and reportGenerated =
\* false whenever its reporting failed.
C14_NoExceptionEscapes ==
    /\ wf.discovery.kind # "threw"
    /\ wf.notification.kind # "threw"
    /\ (wf.notification.kind # "none" /\ wf.reportFailed) =>
           wf.notification.value =
               << [notificationsSent |-> 0, reportGenerated |-> FALSE] >>

\* C15: a run goes through Discovering, AgentRunning (when the agent is
\* invoked), Reporting and back to Idle, and through nothing else: the agent
\* is invoked at most once, Reporting starts only once the discovery step
\* has returned and receives exactly its result, and every run reaches
\* Reporting and then returns to Idle.
C15_StateSequence ==
    /\ wf.invocations <= 1
    /\ \/ IsPrefix(wf.trace,
                   <<"Discovering", "AgentRunning", "Reporting", "Idle">>)
       \/ IsPrefix(wf.trace, <<"Discovering", "Reporting", "Idle">>)
    /\ wf.pc = "reported" =>
           /\ wf.discovery.kind = "returned"
           /\ wf.inputData = wf.discovery.value
    /\ RunEnded =>
           /\ \E k \in 1..Len(wf.trace) : wf.trace[k] = "Reporting"
           /\ wf.trace[Len(wf.trace)] = "Idle"

\* C16: the agent performs at most 20 steps in a run, whatever the board
\* holds and whatever it calls, and once its loop is over the run proceeds
\* to Reporting and finishes.
C16_StepBudget ==
    /\ wf.steps <= 20
    /\ (wf.invocations = 1 /\ DiscoverySettled) =>
           wf.discovery.kind = "returned"
    /\ (wf.invocations = 1 /\ RunEnded) => wf.pc = "complete"

RepositoryMutating == {"createBranch", "commitCode", "createPullRequest"}

\* The answers of the agent that mention an error or a failure.
MentionsError == {SummaryTwoTasks, SummaryTwoPulls}

Parsed ==
    /\ wf.pc = "discovered"
    /\ wf.response # <<>>
    /\ wf.raised = <<>>
    /\ wf.discovery.kind = "returned"

\* The positions of `text` where "pull request #" and a digit stand, in
\* any letter case.
HashOccurrences(text) ==
    {i \in 1..Len(text) :
        /\ StartsWith(ToLowerCase(text), i,
                      <<"p", "u", "l", "l", " ", "r", "e", "q", "u", "e",
                        "s", "t", " ", "#">>)
        /\ i + 14 <= Len(text)
        /\ IsDigit(text[i + 14])}

\* The positions of `text` where "pull request" stands in any letter case,
\* followed by an optional "s", any white space, an optional "#" and a
\* digit.
PullStarts(text) ==
    {i \in 1..Len(text) :
        /\ StartsWith(ToLowerCase(text), i,
                      <<"p", "u", "l", "l", " ", "r", "e", "q", "u", "e",
                        "s", "t">>)
        /\ \E k \in (i + 12)..Len(text), s \in {0, 1}, h \in {0, 1} :
              /\ IsDigit(text[k])
              /\ i + 12 + s + h <= k
              /\ s = 1 => ToLowerCase(text)[i + 12] = "s"
              /\ h = 1 => text[k - 1] = "#"
              /\ \A j \in (i + 12 + s)..(k - 1 - h) : IsSpace(text[j])}

\* The n-th position of a set of positions.
NthOf(starts, n) ==
    CHOOSE i \in starts : Cardinality({j \in starts : j < i}) = n - 1

\* C24 as stated: tasksProcessed is the number of the first
\* "<N> task(s) processed/completed/handled" of the answer, 0 without one,
\* and completedTasks holds one entry for each "pull request #<N>" of the
\* answer.
C24_Original ==
    Parsed =>
        /\ wf.discovery.value[1].tasksProcessed =
              CASE wf.response[1] = SummaryOneTask -> 1
                [] wf.response[1] = SummaryTwoTasks -> 2
                [] wf.response[1] = SummaryTwoPulls -> 12
                [] OTHER -> 0
        /\ Len(wf.discovery.value[1].completedTasks) =
              Cardinality(HashOccurrences(wf.response[1]))

\* C24, amended: tasksProcessed is the number of the first
\* "<N> task(s) processed/completed/handled" of the answer, 0 without one;
\* completedTasks holds, in the order of the text, the matched text of
\* each "pull request" or "pull requests", in any letter case, that is
\* followed by white space or none, an optional "#" and a number: the text
\* from the "p" to the last digit of the number.
C24_ParsedMetrics ==
    Parsed =>
        LET text == wf.response[1]
            starts == PullStarts(text)
            done == wf.discovery.value[1].completedTasks
        IN  /\ wf.discovery.value[1].tasksProcessed =
                  CASE text = SummaryOneTask -> 1
                    [] text = SummaryTwoTasks -> 2
                    [] text = SummaryTwoPulls -> 12
                    [] OTHER -> 0
            /\ Len(done) = Cardinality(starts)
            /\ \A n \in 1..Len(done) :
                  LET i == NthOf(starts, n)
                      last == i + Len(done[n]) - 1
                  IN  /\ last <= Len(text)
                      /\ done[n] = SubSeq(text, i, last)
                      /\ IsDigit(text[last])
                      /\ last < Len(text) => ~IsDigit(text[last + 1])
                      /\ \A j \in (i + 12)..(last - 1) :
                            IsDigit(text[j]) => IsDigit(text[j + 1])

\* Witness of C24: the answer counts 12 tasks, then 3, and names two pull
\* requests, the first in the plural and the second in capitals.
C24_Witness ==
    /\ Parsed
    /\ wf.response = <<SummaryTwoPulls>>
    /\ wf.discovery.value[1].tasksProcessed = 12
    /\ wf.discovery.value[1].completedTasks =
          << <<"p", "u", "l", "l", " ", "r", "e", "q", "u", "e", "s", "t",
               "s", " ", "#", "3">>,
             <<"P", "U", "L", "L", " ", "R", "E", "Q", "U", "E", "S", "T",
               " ", "#", "4", "1">> >>

\* C25: when the agent has answered, errors has exactly one entry if the
\* answer contains "error" or "failed" in any letter case and is empty
\* otherwise, whatever tasksProcessed is and whether or not a tool call of
\* the agent failed.
C25_ErrorFlag ==
    Parsed =>
        LET errors == wf.discovery.value[1].errors IN
        /\ wf.response[1] \in MentionsError => Len(errors) = 1
        /\ wf.response[1] \notin MentionsError => errors = <<>>
        /\ (wf.toolFailed /\ wf.response[1] \notin MentionsError) =>
              errors = <<>>

\* Witness of C25: the answer counts 12 tasks and says "FAILED" in capitals;
\* no tool call failed, tasksProcessed is 12 and errors has one entry.
C25_Witness ==
    /\ Parsed
    /\ wf.response = <<SummaryTwoPulls>>
    /\ ~wf.toolFailed
    /\ wf.discovery.value[1].tasksProcessed = 12
    /\ Len(wf.discovery.value[1].errors) = 1

\* A tool call failed and the answer does not mention it: errors is empty.
C25_UnmentionedFailure ==
    /\ Parsed
    /\ wf.toolFailed
    /\ wf.response = <<SummaryOneTask>>
    /\ wf.discovery.value[1].errors = <<>>

(***************************************************************************)
(* Specifications: one per subsystem, the others at rest.                  *)
(***************************************************************************)
InitCommit ==
    /\ CommitInit /\ TokenInit /\ PrInit /\ ContentInit
    /\ ToolInit /\ WorkflowInit /\ BoardInit /\ BranchInit
SpecCommit == InitCommit /\ [][CommitNext]_vars

InitToken ==
    /\ TokenInit /\ CommitInit /\ PrInit /\ ContentInit
    /\ ToolInit /\ WorkflowInit /\ BoardInit /\ BranchInit
SpecToken == InitToken /\ [][TokenNext]_vars

InitPr ==
    /\ PrInit /\ CommitInit /\ TokenInit /\ ContentInit
    /\ ToolInit /\ WorkflowInit /\ BoardInit /\ BranchInit
SpecPr == InitPr /\ [][PrNext]_vars

InitContent ==
    /\ ContentInit /\ CommitInit /\ TokenInit /\ PrInit
    /\ ToolInit /\ WorkflowInit /\ BoardInit /\ BranchInit
SpecContent == InitContent /\ [][ContentNext]_vars

InitTool ==
    /\ ToolInit /\ CommitInit /\ TokenInit /\ PrInit /\ ContentInit
    /\ WorkflowInit /\ BoardInit /\ BranchInit
SpecTool == InitTool /\ [][ToolNext]_vars

InitWorkflow ==
    /\ WorkflowInit /\ CommitInit /\ TokenInit /\ PrInit /\ ContentInit
    /\ ToolInit /\ BoardInit /\ BranchInit
SpecWorkflow == InitWorkflow /\ [][WorkflowNext]_vars

InitBoard ==
    /\ BoardInit /\ CommitInit /\ TokenInit /\ PrInit /\ ContentInit
    /\ ToolInit /\ WorkflowInit /\ BranchInit
SpecBoard == InitBoard /\ [][BoardNext]_vars

InitBranch ==
    /\ BranchInit /\ CommitInit /\ TokenInit /\ PrInit /\ ContentInit
    /\ ToolInit /\ WorkflowInit /\ BoardInit
SpecBranch == InitBranch /\ [][BranchNext]_vars

=============================================================================
